---------------------------- MODULE Spec2Model ----------------------------
(***************************************************************************)
(* Connectivity and state-synchronisation core of the nomad-display        *)
(* firmware (firmware/nomad-display/src/main.cpp).                         *)
(*                                                                         *)
(* One iteration of loop() is modelled as the sequence of its handlers,    *)
(* in the order of the source:                                             *)
(*   ws      webSocket.loop(), which delivers webSocketEvent callbacks     *)
(*   process processWsMessage()                                            *)
(*   ui      lv_timer_handler(), which delivers the settings-UI callbacks  *)
(*   wifi    handleWifiConnection()                                        *)
(*   udp     checkUDP()                                                    *)
(*   poll    pollDashboardHttp()                                           *)
(*   gate    the teardown rule and the reconnect gate of loop()            *)
(*   delay   delay(5): the clock advances, the radio may change state      *)
(* millis() is read as one value, now, during an iteration.                *)
(*                                                                         *)
(* The environment of a run is one of Envs, fixed at boot:                 *)
(*   steady     the station associates at once and stays associated; the   *)
(*              push client reports any events, the pull endpoint gives    *)
(*              any answer                                                 *)
(*   radio      as steady, but the station associates late or never and    *)
(*              loses its association at any time                          *)
(*   discovery  as steady, with discovery datagrams arriving               *)
(*   posters    as steady, with pull answers whose session has a poster    *)
(*   settings   the user operates the Wi-Fi settings window; iterations    *)
(*              are half as far apart, the pull endpoint is healthy and    *)
(*              the push endpoint leaves connection attempts unanswered    *)
(***************************************************************************)
EXTENDS Integers, Sequences, FiniteSets, TLC

-----------------------------------------------------------------------------
(* Program constants *)

PollIntervalMs == 5000
ReconnectGateMs == 15000
RecentContactMs == 30000
GraceMs == 20000
WifiDeadlineMs == 15000
ThrottleMs == 250
MaxFrameLen == 20000
PosterRetryMs == 30000
PosterRateMs == 15000
DefaultPort == 8000

CaptiveSsid == "NomadPi"
CaptiveIp == "10.42.0.1"
ZeroIp == "0.0.0.0"

(* Status texts and colours written to ui_conn_line1 / ui_status_color *)
StOnline == "Nomad Pi: Online"
StDisconnected == "Nomad Pi: Disconnected"
StWsError == "Nomad Pi: WS Error"
StConnecting == "Connecting..."
StWaiting == "Server: Waiting discovery"
ColRed == "EF4444"
ColGreen == "10B981"

-----------------------------------------------------------------------------
(* Bounds of the model *)

\* The code observes the clock only through differences millis() - t with a
\* stored time t, and compares them with thresholds of at most 30 s.  The
\* clock of the model runs from 0 to Horizon = MaxTicks * TickMs > 30 s; from
\* then on the origin of time moves instead (see Delay), so that a run has
\* no last iteration.
MaxTicks == 7

\* an iteration starts TickMs after the previous one, half of that where the
\* settings UI is in use
TickMs == PollIntervalMs
Horizon == MaxTicks * TickMs

Envs == {"steady", "radio", "discovery", "settings", "posters"}

HostA == "192.168.1.10"
HostB == "192.168.1.20"
HomeSsid == "HomeNet"
Ssids == {CaptiveSsid, HomeSsid}
Passwords == {"secret"}
AltPort == 8080

\* discovery datagrams: unparseable, wrong type, or {type:"discovery",port}
Packets ==
    { [parse |-> FALSE, type |-> "", ip |-> HostA, port |-> DefaultPort],
      [parse |-> TRUE, type |-> "hello", ip |-> HostB, port |-> DefaultPort],
      [parse |-> TRUE, type |-> "discovery", ip |-> ZeroIp, port |-> DefaultPort],
      [parse |-> TRUE, type |-> "discovery", ip |-> HostA, port |-> DefaultPort],
      [parse |-> TRUE, type |-> "discovery", ip |-> HostB, port |-> DefaultPort] }
\* ... and one that announces another port
AllPackets ==
    Packets \cup
    { [parse |-> TRUE, type |-> "discovery", ip |-> HostA, port |-> AltPort] }

NoPacket == [parse |-> FALSE, type |-> "", ip |-> "", port |-> 0]

\* dashboard payloads: len is the byte length, parse whether deserializeJson
\* succeeds, sessions the sessions array (focused session first)
NoUrl == "null"
Session(id, st, url) == [session_id |-> id, state |-> st, poster |-> url]
BadBody == [len |-> 7, parse |-> FALSE, sessions |-> << >>]
EmptyBody == [len |-> 40, parse |-> TRUE, sessions |-> << >>]
PlayBody == [len |-> 120, parse |-> TRUE,
             sessions |-> << Session("s1", "paused", NoUrl) >>]
PosterBody == [len |-> 160, parse |-> TRUE,
               sessions |-> << Session("s2", "playing", "/poster/s2") >>]
Bodies == {BadBody, PlayBody}
\* push frames also come empty and above the cap
Frames == { BadBody, EmptyBody,
            [len |-> 0, parse |-> FALSE, sessions |-> << >>],
            [PlayBody EXCEPT !.len = MaxFrameLen + 1] }
NoFrame == [len |-> 0, parse |-> FALSE, sessions |-> << >>]

HttpCodes == {200, 500, -1}
MdnsAnswers == {ZeroIp, HostA}
PosterResults == {"ok", "nodata", "baddecode"}
\* the outcomes to consider for a payload: one when it names no poster
PosterResultsFor(body) ==
    IF body.parse /\ Len(body.sessions) > 0 /\ body.sessions[1].poster # NoUrl
    THEN PosterResults
    ELSE {"nodata"}


-----------------------------------------------------------------------------
(* State *)

VARIABLES
    env,                    \* the environment of the run, one of Envs
    now,                    \* millis()
    pc,                     \* position inside loop()
    wifi_status,            \* WiFi.status() == WL_CONNECTED
    wifi_begun,             \* WiFi.begin() issued and not yet WiFi.disconnect()
    udp_started,            \* udp.begin(8001) has been called
    ws_link,                \* WebSocketsClient: "none", "tcp" or "open"
    prefs,                  \* Preferences namespace "nomad-display"
    win_wifi,               \* settings window: "closed", or what it shows:
                            \* "list" of networks, "pass" entry, or a "msg"
    sprite_poster,          \* contents of the poster bitmap
    wifi_ssid, wifi_pass,
    server_ip, server_port,
    is_connected, ws_configured, last_ws_begin_ms, ws_host, ws_port,
    mdns_started,
    discovered_server_ip, discovered_server_port, last_server_ip,
    wifi_connecting, wifi_connect_start_ms,
    last_http_poll_ms, discovery_dirty, last_http_success_ms,
    ws_payload_ready, ws_payload, last_ws_process_ms,
    last_poster_fetch_ms, current_poster_url,
    total_sessions, np_session_id, np_is_paused,
    ui_conn_line1, ui_conn_line2, ui_status_color,
    last_user_activity, screensaver_active,
    hist,                   \* history of the step just taken (not program state)
    inp,                    \* the payload whose numbers are being projected
    view,                   \* what the stats and progress widgets were given
    dl                      \* downloadPoster: its position and receive buffer

vars == << env, now, pc, wifi_status, wifi_begun, udp_started, ws_link, prefs,
           win_wifi, sprite_poster, wifi_ssid, wifi_pass, server_ip,
           server_port, is_connected, ws_configured, last_ws_begin_ms,
           ws_host, ws_port, mdns_started, discovered_server_ip,
           discovered_server_port, last_server_ip, wifi_connecting,
           wifi_connect_start_ms, last_http_poll_ms, discovery_dirty,
           last_http_success_ms, ws_payload_ready, ws_payload,
           last_ws_process_ms, last_poster_fetch_ms, current_poster_url,
           total_sessions, np_session_id, np_is_paused, ui_conn_line1,
           ui_conn_line2, ui_status_color, last_user_activity,
           screensaver_active, hist, inp, view, dl >>

\* The globals as one value, so that a handler is a function from globals to
\* globals and a handler that calls another one is their composition.
G == [ wifi_status |-> wifi_status, wifi_begun |-> wifi_begun,
       udp_started |-> udp_started, ws_link |-> ws_link, prefs |-> prefs,
       win_wifi |-> win_wifi, sprite_poster |-> sprite_poster,
       wifi_ssid |-> wifi_ssid, wifi_pass |-> wifi_pass,
       server_ip |-> server_ip, server_port |-> server_port,
       is_connected |-> is_connected, ws_configured |-> ws_configured,
       last_ws_begin_ms |-> last_ws_begin_ms, ws_host |-> ws_host,
       ws_port |-> ws_port, mdns_started |-> mdns_started,
       discovered_server_ip |-> discovered_server_ip,
       discovered_server_port |-> discovered_server_port,
       last_server_ip |-> last_server_ip,
       wifi_connecting |-> wifi_connecting,
       wifi_connect_start_ms |-> wifi_connect_start_ms,
       last_http_poll_ms |-> last_http_poll_ms,
       discovery_dirty |-> discovery_dirty,
       last_http_success_ms |-> last_http_success_ms,
       ws_payload_ready |-> ws_payload_ready, ws_payload |-> ws_payload,
       last_ws_process_ms |-> last_ws_process_ms,
       last_poster_fetch_ms |-> last_poster_fetch_ms,
       current_poster_url |-> current_poster_url,
       total_sessions |-> total_sessions, np_session_id |-> np_session_id,
       np_is_paused |-> np_is_paused, ui_conn_line1 |-> ui_conn_line1,
       ui_conn_line2 |-> ui_conn_line2, ui_status_color |-> ui_status_color,
       last_user_activity |-> last_user_activity,
       screensaver_active |-> screensaver_active,
       hist |-> hist ]

\* the globals take the values of g
Assign(g) ==
    /\ wifi_status' = g.wifi_status
    /\ wifi_begun' = g.wifi_begun
    /\ udp_started' = g.udp_started
    /\ ws_link' = g.ws_link
    /\ prefs' = g.prefs
    /\ win_wifi' = g.win_wifi
    /\ sprite_poster' = g.sprite_poster
    /\ wifi_ssid' = g.wifi_ssid
    /\ wifi_pass' = g.wifi_pass
    /\ server_ip' = g.server_ip
    /\ server_port' = g.server_port
    /\ is_connected' = g.is_connected
    /\ ws_configured' = g.ws_configured
    /\ last_ws_begin_ms' = g.last_ws_begin_ms
    /\ ws_host' = g.ws_host
    /\ ws_port' = g.ws_port
    /\ mdns_started' = g.mdns_started
    /\ discovered_server_ip' = g.discovered_server_ip
    /\ discovered_server_port' = g.discovered_server_port
    /\ last_server_ip' = g.last_server_ip
    /\ wifi_connecting' = g.wifi_connecting
    /\ wifi_connect_start_ms' = g.wifi_connect_start_ms
    /\ last_http_poll_ms' = g.last_http_poll_ms
    /\ discovery_dirty' = g.discovery_dirty
    /\ last_http_success_ms' = g.last_http_success_ms
    /\ ws_payload_ready' = g.ws_payload_ready
    /\ ws_payload' = g.ws_payload
    /\ last_ws_process_ms' = g.last_ws_process_ms
    /\ last_poster_fetch_ms' = g.last_poster_fetch_ms
    /\ current_poster_url' = g.current_poster_url
    /\ total_sessions' = g.total_sessions
    /\ np_session_id' = g.np_session_id
    /\ np_is_paused' = g.np_is_paused
    /\ ui_conn_line1' = g.ui_conn_line1
    /\ ui_conn_line2' = g.ui_conn_line2
    /\ ui_status_color' = g.ui_status_color
    /\ last_user_activity' = g.last_user_activity
    /\ screensaver_active' = g.screensaver_active
    /\ hist' = g.hist

Commit(g) ==
    /\ Assign(g)
    /\ UNCHANGED << inp, view, dl >>

\* What the step just taken did; every action starts from NoHist(op).
\*   begin     webSocket.begin was called
\*   again     ... and had been called before
\*   teardown  the loop's teardown rule fired
\*   get       a pull request was issued
\*   code      ... and this is the HTTP code it returned, 0 if none was
\*   gap       ... and this is the time since the previous one, -1 when
\*             it is the first
\*   pullOk    the pull body was decoded
\*   body      the payload handed to updateDashboardUI, NoFrame if none was
\*   event     the callback delivered by webSocket.loop(), "none" if none was
\*   flen      length of the text frame delivered, -1 if none was
\*   failed    a payload (mailbox or 200 pull body) failed to decode
\*   pkt       the datagram checkUDP read, NoPacket if there was none
\*   wbegin    connectToWifi was called
\*   wup       handleWifiConnection ran its on-connected effects
\*   wfail     handleWifiConnection reported "Connection Failed"
\*   located   tryConnectWebSocket determined the server address
\*   mdns      it issued an mDNS query (MDNS.queryHost) to do so
\*   decoded   arrival time of the push frame decoded, -1 if none was
\*   same      the payload projected names the poster already cached
\*   age       time since the previous poster fetch attempt when a session
\*             was projected, -1 if there was no attempt yet
\*   fetch     result of the poster fetch started, "none" if none was
\*   dirtied   checkUDP raised discovery_dirty
\* and, kept across steps,
\*   arrival   arrival time of the frame in the mailbox
\*   begun     webSocket.begin has been called before
\*   changed   the discovery address changed since the previous begin
\*   prevGet   time of the previous pull request, -1 before the first
\*   joined    the SSID given to the last WiFi.begin, "" when none was given
\*             since boot or since the last WiFi.disconnect
\*   prevLocate time at which the reconnect gate last ran the locator
\*             without finding an address, -1 when its last run found one
\*   contact   a contact succeeded: handshake, decoded frame or pull body
\*   prevFetch time of the previous poster fetch attempt, -1 before the first
\*   queued    accepted text frames delivered since the mailbox was last
\*             consumed, or minus the number that had been delivered when
\*             it has just been consumed; latest is the last of them
\*             (both kept by MailSpec)
\*   touched   my_touchpad_read found the panel touched
\*   woke      ... and the screensaver was dismissed
\*   twice     the payload decoded is the one hist.ref remembers
\*   ref       a payload decoded earlier and what was projected from it
\*             (kept by IdemSpec)
\*   dirtyAge  iterations completed since checkUDP raised discovery_dirty
\*             on a configured push channel, at most 1; -1 when it did not
\*             since the channel was last begun or torn down
NoHist(op) == [ hist EXCEPT !.op = op, !.begin = FALSE, !.again = FALSE,
                            !.teardown = FALSE,
                            !.get = FALSE, !.code = 0, !.gap = -1,
                            !.pullOk = FALSE, !.body = NoFrame,
                            !.event = "none", !.flen = -1, !.failed = FALSE,
                                   !.located = FALSE, !.mdns = FALSE,
                                   !.pkt = NoPacket, !.wbegin = FALSE,
                                   !.wup = FALSE, !.wfail = FALSE,
                                   !.decoded = -1, !.same = FALSE,
                                   !.age = -1,
                            !.fetch = "none", !.dirtied = FALSE,
                            !.twice = FALSE, !.touched = FALSE,
                            !.woke = FALSE ]
Start(op) == [ G EXCEPT !.hist = NoHist(op) ]

-----------------------------------------------------------------------------
(* Helpers *)

\* isIpAddress: at least 7 characters, digits and dots only.  Every host of
\* the model other than the empty string is a dotted quad.
isIpAddress(s) == s \in {CaptiveIp, HostA, HostB, ZeroIp}

\* the second status line: what it says, and the host and number it shows
Detail(what, host, num) == [what |-> what, host |-> host, num |-> num]
NoDetail == Detail("", "", 0)

SetStatus(g, line1, line2, color) ==
    [g EXCEPT !.ui_conn_line1 = line1, !.ui_conn_line2 = line2,
              !.ui_status_color = color]

\* saveLastServerIp
saveLastServerIp(g, ip) == [g EXCEPT !.prefs.last_server_ip = ip]

\* savePreferences
savePreferences(g) ==
    [g EXCEPT !.prefs.ssid = g.wifi_ssid, !.prefs.pass = g.wifi_pass]

\* the screensaver; the loop model leaves lines 244-248 out and TouchSpec
\* follows them
ScreensaverTimeoutMs == 300000

deactivateScreensaver(g) ==
    IF ~g.screensaver_active THEN g
    ELSE [g EXCEPT !.screensaver_active = FALSE, !.hist.woke = TRUE]

activateScreensaver(g) ==
    IF g.screensaver_active THEN g
    ELSE [g EXCEPT !.screensaver_active = TRUE]

\* resetUserActivity that counts a touch as a contact with the server
resetUserActivity_refreshes(g) ==
    LET g1 == [g EXCEPT !.last_user_activity = now,
                        !.last_http_success_ms = now]
    IN IF g1.screensaver_active THEN deactivateScreensaver(g1) ELSE g1

resetUserActivity(g) ==
    LET g1 == [g EXCEPT !.last_user_activity = now]
    IN IF g1.screensaver_active THEN deactivateScreensaver(g1) ELSE g1

checkScreensaver(g) ==
    IF g.screensaver_active THEN g
    ELSE IF now - g.last_user_activity > ScreensaverTimeoutMs
    THEN activateScreensaver(g)
    ELSE g

\* touched is the result of tft.getTouch
my_touchpad_read(g, touched) ==
    IF touched THEN resetUserActivity([g EXCEPT !.hist.touched = TRUE])
    ELSE g

\* connectToWifi
connectToWifi(g) ==
    [g EXCEPT !.wifi_begun = TRUE, !.wifi_connecting = TRUE,
              !.wifi_connect_start_ms = now, !.hist.wbegin = TRUE,
              !.hist.joined = g.wifi_ssid]

-----------------------------------------------------------------------------
(* webSocketEvent *)

OnConnected(g) ==
    [ SetStatus(g, StOnline, Detail("ws", g.ws_host, g.ws_port), ColGreen)
        EXCEPT !.is_connected = TRUE, !.last_http_success_ms = now,
               !.hist.contact = TRUE ]

OnDisconnected(g) ==
    LET g1 == IF now - g.last_http_success_ms > GraceMs
              THEN SetStatus(g, StDisconnected, Detail("Retrying...", "", 0), ColRed)
              ELSE g
    IN [g1 EXCEPT !.is_connected = FALSE]

OnError(g) ==
    [ SetStatus(g, StWsError, Detail("Retrying...", "", 0), ColRed)
        EXCEPT !.is_connected = FALSE ]

\* webSocketEvent that stores a text frame of any length
OnText_uncapped(g, frame) ==
    [g EXCEPT !.ws_payload = frame, !.ws_payload_ready = TRUE,
              !.hist.flen = frame.len, !.hist.arrival = now]

\* webSocketEvent that leaves a frame waiting in the mailbox in place
OnText_keepsFirst(g, frame) ==
    IF frame.len = 0 \/ frame.len > MaxFrameLen
    THEN [g EXCEPT !.hist.flen = frame.len]
    ELSE IF g.ws_payload_ready
    THEN [g EXCEPT !.hist.flen = frame.len, !.hist.arrival = now]
    ELSE [g EXCEPT !.ws_payload = frame, !.ws_payload_ready = TRUE,
                   !.hist.flen = frame.len, !.hist.arrival = now]

OnText(g, frame) ==
    IF frame.len = 0 \/ frame.len > MaxFrameLen
    THEN [g EXCEPT !.hist.flen = frame.len]
    ELSE [g EXCEPT !.ws_payload = frame, !.ws_payload_ready = TRUE,
                   !.hist.flen = frame.len, !.hist.arrival = now]

webSocketEvent(g, e) ==
    CASE e.type = "CONNECTED" -> OnConnected(g)
      [] e.type = "DISCONNECTED" -> OnDisconnected(g)
      [] e.type = "ERROR" -> OnError(g)
      [] e.type = "TEXT" -> OnText(g, e.frame)

\* webSocket.disconnect(): the client drops its socket; when it had one it
\* reports WStype_DISCONNECTED to the callback before returning.
wsDisconnect(g) ==
    IF g.ws_link = "none"
    THEN g
    ELSE OnDisconnected([g EXCEPT !.ws_link = "none"])

-----------------------------------------------------------------------------
(* tryConnectWebSocket; mdnsOk and answer are the results of MDNS.begin and *)
(* MDNS.queryHost, used only on the name-resolution branch                  *)

\* a locator that consults the discovery cache before the captive rule
Locate_cacheFirst(g, mdnsOk, answer) ==
    IF g.discovered_server_ip # ""
    THEN [g EXCEPT !.server_ip = g.discovered_server_ip,
                   !.server_port = g.discovered_server_port,
                   !.hist.located = TRUE]
    ELSE IF g.wifi_ssid = CaptiveSsid
    THEN [g EXCEPT !.server_ip = CaptiveIp, !.hist.located = TRUE]
    ELSE [g EXCEPT !.server_ip = "", !.hist.located = TRUE]

\* a locator that uses the mDNS answer without caching it
Locate_noCache(g, mdnsOk, answer) ==
    IF g.wifi_ssid = CaptiveSsid
    THEN [g EXCEPT !.server_ip = CaptiveIp, !.hist.located = TRUE]
    ELSE IF g.discovered_server_ip # ""
    THEN [g EXCEPT !.server_ip = g.discovered_server_ip,
                   !.server_port = g.discovered_server_port,
                   !.hist.located = TRUE]
    ELSE LET started == g.mdns_started \/ mdnsOk
             g1 == [g EXCEPT !.mdns_started = started,
                             !.hist.located = TRUE,
                             !.hist.mdns = started]
         IN IF started /\ answer # ZeroIp
            THEN [g1 EXCEPT !.server_ip = answer]
            ELSE [g1 EXCEPT !.server_ip = ""]

Locate(g, mdnsOk, answer) ==
    IF g.wifi_ssid = CaptiveSsid
    THEN [g EXCEPT !.server_ip = CaptiveIp, !.hist.located = TRUE]
    ELSE IF g.discovered_server_ip # ""
    THEN [g EXCEPT !.server_ip = g.discovered_server_ip,
                   !.server_port = g.discovered_server_port,
                   !.hist.located = TRUE]
    ELSE LET started == g.mdns_started \/ mdnsOk
             g1 == [g EXCEPT !.mdns_started = started,
                             !.hist.located = TRUE,
                             !.hist.mdns = started]
         IN IF started /\ answer # ZeroIp
            THEN [ saveLastServerIp(g1, answer)
                     EXCEPT !.discovered_server_ip = answer,
                            !.discovered_server_port = g.server_port,
                            !.last_server_ip = answer,
                            !.server_ip = answer ]
            ELSE [g1 EXCEPT !.server_ip = ""]

WsBegin(g) ==
    LET g1 == [ SetStatus(g, StConnecting, Detail("ws", g.ws_host, g.ws_port),
                          g.ui_status_color)
                  EXCEPT !.last_ws_begin_ms = now ]
        g2 == IF g1.ws_configured THEN wsDisconnect(g1) ELSE g1
    IN [ g2 EXCEPT !.ws_link = "none", !.ws_configured = TRUE,
                   !.hist.begin = TRUE, !.hist.again = g.hist.begun,
                   !.hist.begun = TRUE, !.hist.changed = FALSE,
                   !.hist.dirtyAge = -1 ]

tryConnectWebSocket(g, mdnsOk, answer) ==
    IF ~g.wifi_status THEN g
    ELSE
    LET g0 == [g EXCEPT !.discovery_dirty = FALSE]
        g1 == Locate(g0, mdnsOk, answer)
    IN IF g1.server_ip = ""
       THEN SetStatus(g1, StWaiting, NoDetail, g1.ui_status_color)
       ELSE IF g1.ws_host = g1.server_ip /\ g1.ws_port = g1.server_port
               /\ g1.ws_configured
       THEN g1
       ELSE WsBegin([g1 EXCEPT !.ws_host = g1.server_ip,
                               !.ws_port = g1.server_port])

-----------------------------------------------------------------------------
(* updateDashboardUI; res is the outcome of downloadPoster should it run:  *)
(* "ok", "nodata" (non-200, empty body, no buffer) or "baddecode"           *)

downloadPoster(g, url, res) ==
    IF ~g.wifi_status \/ res = "nodata"
    THEN g
    ELSE IF res = "ok"
    THEN [g EXCEPT !.sprite_poster = url]
    ELSE [g EXCEPT !.sprite_poster = "black"]

PosterOk(g, res) == g.wifi_status /\ res = "ok"

\* updateDashboardUI that leaves the poster URL alone when no session is left
updateDashboardUI_keepsUrl(g, body, res) ==
    LET g1 == [g EXCEPT !.total_sessions = Len(body.sessions)]
    IN IF Len(body.sessions) = 0
       THEN [g1 EXCEPT !.np_session_id = ""]
       ELSE
       LET s == body.sessions[1]
           g2 == [g1 EXCEPT !.np_session_id = s.session_id,
                            !.np_is_paused = (s.state = "paused")]
           url_changed == g2.current_poster_url # s.poster
           retry_due == ~url_changed
                        /\ now - g2.last_poster_fetch_ms > PosterRetryMs
           time_ok == now - g2.last_poster_fetch_ms > PosterRateMs
       IN IF s.poster # NoUrl /\ time_ok /\ (url_changed \/ retry_due)
          THEN LET g3 == [g2 EXCEPT !.last_poster_fetch_ms = now,
                                    !.hist.fetch = res]
                   g4 == downloadPoster(g3, s.poster, res)
               IN IF PosterOk(g3, res)
                  THEN [g4 EXCEPT !.current_poster_url = s.poster]
                  ELSE g4
          ELSE g2

\* updateDashboardUI that fetches a changed poster without a rate limit
updateDashboardUI_noRateLimit(g, body, res) ==
    LET g1 == [g EXCEPT !.total_sessions = Len(body.sessions)]
    IN IF Len(body.sessions) = 0
       THEN [g1 EXCEPT !.np_session_id = "", !.current_poster_url = ""]
       ELSE
       LET s == body.sessions[1]
           g2 == [g1 EXCEPT !.np_session_id = s.session_id,
                            !.np_is_paused = (s.state = "paused"),
                            !.hist.same =
                                (s.poster # NoUrl
                                 /\ s.poster = g1.current_poster_url),
                            !.hist.age =
                                IF g1.hist.prevFetch < 0 THEN -1
                                ELSE now - g1.hist.prevFetch]
           url_changed == g2.current_poster_url # s.poster
           retry_due == ~url_changed
                        /\ now - g2.last_poster_fetch_ms > PosterRetryMs
           time_ok == TRUE
       IN IF s.poster # NoUrl /\ time_ok /\ (url_changed \/ retry_due)
          THEN LET g3 == [g2 EXCEPT !.last_poster_fetch_ms = now,
                                    !.hist.fetch = res,
                                    !.hist.prevFetch = now]
                   g4 == downloadPoster(g3, s.poster, res)
               IN IF PosterOk(g3, res)
                  THEN [g4 EXCEPT !.current_poster_url = s.poster]
                  ELSE g4
          ELSE g2

\* updateDashboardUI whose retry of an unchanged poster is due after 15 s
updateDashboardUI_retryAtFifteen(g, body, res) ==
    LET g1 == [g EXCEPT !.total_sessions = Len(body.sessions)]
    IN IF Len(body.sessions) = 0
       THEN [g1 EXCEPT !.np_session_id = "", !.current_poster_url = ""]
       ELSE
       LET s == body.sessions[1]
           g2 == [g1 EXCEPT !.np_session_id = s.session_id,
                            !.np_is_paused = (s.state = "paused"),
                            !.hist.same =
                                (s.poster # NoUrl
                                 /\ s.poster = g1.current_poster_url),
                            !.hist.age =
                                IF g1.hist.prevFetch < 0 THEN -1
                                ELSE now - g1.hist.prevFetch]
           url_changed == g2.current_poster_url # s.poster
           retry_due == ~url_changed
                        /\ now - g2.last_poster_fetch_ms > PosterRateMs
           time_ok == now - g2.last_poster_fetch_ms > PosterRateMs
       IN IF s.poster # NoUrl /\ time_ok /\ (url_changed \/ retry_due)
          THEN LET g3 == [g2 EXCEPT !.last_poster_fetch_ms = now,
                                    !.hist.fetch = res,
                                    !.hist.prevFetch = now]
                   g4 == downloadPoster(g3, s.poster, res)
               IN IF PosterOk(g3, res)
                  THEN [g4 EXCEPT !.current_poster_url = s.poster]
                  ELSE g4
          ELSE g2

updateDashboardUI(g, body, res) ==
    LET g1 == [g EXCEPT !.total_sessions = Len(body.sessions)]
    IN IF Len(body.sessions) = 0
       THEN [g1 EXCEPT !.np_session_id = "", !.current_poster_url = ""]
       ELSE
       LET s == body.sessions[1]
           g2 == [g1 EXCEPT !.np_session_id = s.session_id,
                            !.np_is_paused = (s.state = "paused"),
                            !.hist.same =
                                (s.poster # NoUrl
                                 /\ s.poster = g1.current_poster_url),
                            !.hist.age =
                                IF g1.hist.prevFetch < 0 THEN -1
                                ELSE now - g1.hist.prevFetch]
           url_changed == g2.current_poster_url # s.poster
           retry_due == ~url_changed
                        /\ now - g2.last_poster_fetch_ms > PosterRetryMs
           time_ok == now - g2.last_poster_fetch_ms > PosterRateMs
       IN IF s.poster # NoUrl /\ time_ok /\ (url_changed \/ retry_due)
          THEN LET g3 == [g2 EXCEPT !.last_poster_fetch_ms = now,
                                    !.hist.fetch = res,
                                    !.hist.prevFetch = now]
                   g4 == downloadPoster(g3, s.poster, res)
               IN IF PosterOk(g3, res)
                  THEN [g4 EXCEPT !.current_poster_url = s.poster]
                  ELSE g4
          ELSE g2

-----------------------------------------------------------------------------
(* updateDashboardUI: the numbers of the payload. They are carried in       *)
(* tenths (425 is 42.5), so that fractions and their truncation exist. The  *)
(* loop model above follows sessions and posters; the numbers are followed  *)
(* by ProjSpec below, which applies these operators to drawn payloads.      *)

HistoryGateMs == 2000
PctInputs == {-55, -1, 0, 425, 1000, 1500, 3000}
FewPctInputs == {-55, 425, 1500}
TimeInputs == {-50, 0, 5, 1200, 1205, 1500}
CountInputs == {-3, 0, 2}
UptimeInputs == {-36000, -5, 864000}

System(cpu, ram, disk, users, up) ==
    [cpu_percent |-> cpu, ram_percent |-> ram, disk_percent |-> disk,
     active_users |-> users, uptime_seconds |-> up]
Progress(cur, dur) == [current_time |-> cur, duration |-> dur]

NoInput == [sessions |-> << >>, system |-> System(0, 0, 0, 0, 0)]
ProjInputs ==
    { [sessions |-> ss, system |-> System(cpu, ram, disk, users, up)] :
        ss \in {<< >>} \cup { << Progress(c, d) >> : c, d \in TimeInputs },
        cpu \in PctInputs, ram \in FewPctInputs, disk \in FewPctInputs,
        users \in CountInputs, up \in UptimeInputs }

\* the widgets as buildDashboardTab leaves them
NoView == [done |-> FALSE, cpu10 |-> 0, ram10 |-> 0, disk10 |-> 0,
           users |-> 0, uptime |-> 0, cpu_sample |-> 0, ram_sample |-> 0,
           last_history_update |-> 0, card |-> FALSE, cur |-> 0, dur |-> 0,
           bar_max |-> 100, bar_value |-> 0]

\* a conversion to an integer type drops the fraction
Trunc(x) == IF x >= 0 THEN x \div 10 ELSE -((-x) \div 10)

\* (int)(v * 10.0f + 0.5f), the tenths that the labels print
Tenths(x) == IF x >= 0 THEN x ELSE x + 1

\* (uint32_t) of a double and (uint8_t) of a float: the result is the
\* truncated value when the type can hold it, and is undefined otherwise
CastU32(x) == IF Trunc(x) >= 0 THEN {Trunc(x)} ELSE {0, 1, 2147483647}
CastU8(x) == IF Trunc(x) \in 0..255 THEN {Trunc(x)}
                                    ELSE {0, 255, Trunc(x) % 256}

\* cpu > 100 ? 100 : cpu
AtMostHundred(x) == IF x > 1000 THEN 1000 ELSE x

\* the values the conversions of one payload may yield
Casts(body) ==
    [ cpu : CastU8(AtMostHundred(body.system.cpu_percent)),
      ram : CastU8(AtMostHundred(body.system.ram_percent)),
      uptime : CastU32(body.system.uptime_seconds) ]

updateHistoryBuffers(v, c) ==
    IF now - v.last_history_update < HistoryGateMs THEN v
    ELSE [v EXCEPT !.last_history_update = now,
                   !.cpu_sample = c.cpu, !.ram_sample = c.ram]

UpdateStats(v, system, c) ==
    [ updateHistoryBuffers(v, c)
        EXCEPT !.cpu10 = Tenths(system.cpu_percent),
               !.ram10 = Tenths(system.ram_percent),
               !.disk10 = Tenths(system.disk_percent),
               !.users = system.active_users,
               !.uptime = c.uptime ]

\* UpdateProgress that never moves the position backwards
UpdateProgress_forwardOnly(v, s) ==
    LET cur_f == IF s.current_time < 0 THEN 0 ELSE s.current_time
        dur_f == IF s.duration < 0 THEN 0 ELSE s.duration
        cur0 == Trunc(cur_f)
        dur == Trunc(dur_f)
        cur1 == IF dur > 0 /\ cur0 > dur THEN dur ELSE cur0
        cur == IF v.card /\ v.cur > cur1 THEN v.cur ELSE cur1
    IN IF dur > 0
       THEN [v EXCEPT !.card = TRUE, !.cur = cur, !.dur = dur,
                      !.bar_max = dur, !.bar_value = cur]
       ELSE [v EXCEPT !.card = TRUE, !.cur = cur, !.dur = dur,
                      !.bar_max = 100, !.bar_value = 0]

UpdateProgress(v, s) ==
    LET cur_f == IF s.current_time < 0 THEN 0 ELSE s.current_time
        dur_f == IF s.duration < 0 THEN 0 ELSE s.duration
        cur0 == Trunc(cur_f)
        dur == Trunc(dur_f)
        cur == IF dur > 0 /\ cur0 > dur THEN dur ELSE cur0
    IN IF dur > 0
       THEN [v EXCEPT !.card = TRUE, !.cur = cur, !.dur = dur,
                      !.bar_max = dur, !.bar_value = cur]
       ELSE [v EXCEPT !.card = TRUE, !.cur = cur, !.dur = dur,
                      !.bar_max = 100, !.bar_value = 0]

UpdateWidgets(v, body, c) ==
    LET v1 == [UpdateStats(v, body.system, c) EXCEPT !.done = TRUE]
    IN IF Len(body.sessions) = 0
       THEN [v1 EXCEPT !.card = FALSE]
       ELSE UpdateProgress(v1, body.sessions[1])

-----------------------------------------------------------------------------
(* downloadPoster: the receive buffer. The loop model above takes the       *)
(* outcome of a fetch as given; FetchSpec below follows the buffer through  *)
(* one call, step by step.                                                   *)

PosterCapBytes == 500000
DefaultCapBytes == 65536
MinGrowBytes == 16384

\* http.getSize(): the Content-Length, -1 when the answer has none
Lens == {-1, 0, 1000, 70000, PosterCapBytes, PosterCapBytes + 100000}
\* stream->available()
Avails == {-1, 0, 20000, 70000, PosterCapBytes + 100000}
\* stream->readBytes: up to `want` bytes, fewer when the read times out
Gots(want) == {0, want} \cup (IF want > 20000 THEN {20000} ELSE {})

\* excess: the stream held more than the buffer at its ceiling had room for;
\* tried: line 1586 was passed, the sprite blanked and a decoder run;
\* ret: the value returned
NoFetch == [pc |-> "call", len |-> 0, cap |-> 0, used |-> 0, want |-> 0,
            next_cap |-> 0, excess |-> FALSE, tried |-> FALSE, ret |-> FALSE]

\* lines 1549-1550
FirstCap(len) ==
    LET cap == IF len > 0 THEN len ELSE DefaultCapBytes
    IN IF cap > PosterCapBytes THEN PosterCapBytes ELSE cap

\* one pass of the growth loop that never ends above the ceiling
GrowOnce_unclipped(next_cap) ==
    LET grow == IF next_cap \div 2 < MinGrowBytes THEN MinGrowBytes
                                                  ELSE next_cap \div 2
    IN next_cap + grow

\* lines 1565-1568: one pass of the growth loop
GrowOnce(next_cap) ==
    LET grow == IF next_cap \div 2 < MinGrowBytes THEN MinGrowBytes
                                                  ELSE next_cap \div 2
        grown == next_cap + grow
    IN IF grown > PosterCapBytes THEN PosterCapBytes ELSE grown

\* line 1564: the condition of the growth loop
MustGrow(d) == d.want > d.next_cap - d.used /\ d.next_cap < PosterCapBytes

-----------------------------------------------------------------------------
(* processWsMessage *)

\* processWsMessage that decodes without refreshing the last contact
processWsMessage_noRefresh(g, res) ==
    IF ~g.ws_payload_ready THEN g
    ELSE IF now - g.last_ws_process_ms < ThrottleMs THEN g
    ELSE
    LET g1 == [g EXCEPT !.ws_payload_ready = FALSE,
                        !.last_ws_process_ms = now]
    IN IF ~g1.ws_payload.parse
       THEN g1
       ELSE updateDashboardUI(
                [g1 EXCEPT !.hist.decoded = g1.hist.arrival,
                           !.hist.body = g1.ws_payload,
                           !.hist.contact = TRUE],
                g1.ws_payload, res)

\* processWsMessage that clears the session on a payload it cannot decode
processWsMessage_clearsOnError(g, res) ==
    IF ~g.ws_payload_ready THEN g
    ELSE IF now - g.last_ws_process_ms < ThrottleMs THEN g
    ELSE
    LET g1 == [g EXCEPT !.ws_payload_ready = FALSE,
                        !.last_ws_process_ms = now]
    IN IF ~g1.ws_payload.parse
       THEN [g1 EXCEPT !.hist.failed = TRUE, !.np_session_id = "",
                       !.total_sessions = 0]
       ELSE updateDashboardUI(
                [g1 EXCEPT !.last_http_success_ms = now,
                           !.hist.decoded = g1.hist.arrival,
                           !.hist.body = g1.ws_payload,
                           !.hist.contact = TRUE],
                g1.ws_payload, res)

\* processWsMessage that still waits when exactly 250 ms have gone by
processWsMessage_strict(g, res) ==
    IF ~g.ws_payload_ready THEN g
    ELSE IF now - g.last_ws_process_ms <= ThrottleMs THEN g
    ELSE
    LET g1 == [g EXCEPT !.ws_payload_ready = FALSE,
                        !.last_ws_process_ms = now]
    IN IF ~g1.ws_payload.parse
       THEN [g1 EXCEPT !.hist.failed = TRUE]
       ELSE updateDashboardUI(
                [g1 EXCEPT !.last_http_success_ms = now,
                           !.hist.decoded = g1.hist.arrival,
                           !.hist.body = g1.ws_payload,
                           !.hist.contact = TRUE],
                g1.ws_payload, res)

processWsMessage(g, res) ==
    IF ~g.ws_payload_ready THEN g
    ELSE IF now - g.last_ws_process_ms < ThrottleMs THEN g
    ELSE
    LET g1 == [g EXCEPT !.ws_payload_ready = FALSE,
                        !.last_ws_process_ms = now]
    IN IF ~g1.ws_payload.parse
       THEN [g1 EXCEPT !.hist.failed = TRUE]
       ELSE updateDashboardUI(
                [g1 EXCEPT !.last_http_success_ms = now,
                           !.hist.decoded = g1.hist.arrival,
                           !.hist.body = g1.ws_payload,
                           !.hist.contact = TRUE],
                g1.ws_payload, res)

-----------------------------------------------------------------------------
(* pollDashboardHttp; code and body are the server's answer to the GET *)

AddressUsable(g) ==
    /\ g.server_ip # ""
    /\ (isIpAddress(g.server_ip) \/ g.server_ip = CaptiveIp)

\* pollDashboardHttp that skips a poll made exactly 5000 ms after the last
pollDashboardHttp_lateByOne(g, code, body, res) ==
    IF now - g.last_http_poll_ms <= PollIntervalMs THEN g
    ELSE
    LET g1 == [g EXCEPT !.last_http_poll_ms = now]
    IN IF ~AddressUsable(g1) THEN g1
       ELSE
       LET g2 == [g1 EXCEPT !.hist.get = TRUE, !.hist.code = code,
                            !.hist.gap = IF g.hist.prevGet < 0 THEN -1
                                         ELSE now - g.hist.prevGet,
                            !.hist.prevGet = now]
       IN IF code = 200
          THEN IF body.parse
               THEN updateDashboardUI(
                        [ SetStatus(g2, StOnline,
                                    Detail("HTTP", g2.server_ip, g2.server_port),
                                    ColGreen)
                            EXCEPT !.last_http_success_ms = now,
                                   !.hist.pullOk = TRUE,
                                   !.hist.body = body,
                                   !.hist.contact = TRUE ],
                        body, res)
               ELSE g2
          ELSE IF now - g2.last_http_success_ms > GraceMs
               THEN SetStatus(g2, StDisconnected, Detail("HTTP err", "", code),
                              ColRed)
               ELSE g2

\* pollDashboardHttp that reports a decoded body without projecting it
pollDashboardHttp_unprojected(g, code, body, res) ==
    IF now - g.last_http_poll_ms < PollIntervalMs THEN g
    ELSE
    LET g1 == [g EXCEPT !.last_http_poll_ms = now]
    IN IF ~AddressUsable(g1) THEN g1
       ELSE
       LET g2 == [g1 EXCEPT !.hist.get = TRUE, !.hist.code = code,
                            !.hist.gap = IF g.hist.prevGet < 0 THEN -1
                                         ELSE now - g.hist.prevGet,
                            !.hist.prevGet = now]
       IN IF code = 200
          THEN IF body.parse
               THEN [ SetStatus(g2, StOnline,
                                Detail("HTTP", g2.server_ip, g2.server_port),
                                ColGreen)
                        EXCEPT !.last_http_success_ms = now,
                               !.hist.pullOk = TRUE,
                               !.hist.body = body,
                               !.hist.contact = TRUE ]
               ELSE g2
          ELSE IF now - g2.last_http_success_ms > GraceMs
               THEN SetStatus(g2, StDisconnected, Detail("HTTP err", "", code),
                              ColRed)
               ELSE g2

pollDashboardHttp(g, code, body, res) ==
    IF now - g.last_http_poll_ms < PollIntervalMs THEN g
    ELSE
    LET g1 == [g EXCEPT !.last_http_poll_ms = now]
    IN IF ~AddressUsable(g1) THEN g1
       ELSE
       LET g2 == [g1 EXCEPT !.hist.get = TRUE, !.hist.code = code,
                            !.hist.gap = IF g.hist.prevGet < 0 THEN -1
                                         ELSE now - g.hist.prevGet,
                            !.hist.prevGet = now]
       IN IF code = 200
          THEN IF body.parse
               THEN updateDashboardUI(
                        [ SetStatus(g2, StOnline,
                                    Detail("HTTP", g2.server_ip, g2.server_port),
                                    ColGreen)
                            EXCEPT !.last_http_success_ms = now,
                                   !.hist.pullOk = TRUE,
                                   !.hist.body = body,
                                   !.hist.contact = TRUE ],
                        body, res)
               ELSE [g2 EXCEPT !.hist.failed = TRUE]
          ELSE IF now - g2.last_http_success_ms > GraceMs
               THEN SetStatus(g2, StDisconnected, Detail("HTTP err", "", code),
                              ColRed)
               ELSE g2

-----------------------------------------------------------------------------
(* checkUDP; pkt is the datagram udp.parsePacket() found *)

\* checkUDP that compares only the sender's IP with the cached one
checkUDP_ipOnly(g, pkt) ==
    IF pkt.parse /\ pkt.type = "discovery" /\ pkt.ip # ZeroIp
    THEN LET changed == g.discovered_server_ip # pkt.ip
             g1 == [ saveLastServerIp(g, pkt.ip)
                       EXCEPT !.discovered_server_ip = pkt.ip,
                              !.discovered_server_port = pkt.port,
                              !.last_server_ip = pkt.ip ]
         IN IF changed
            THEN [g1 EXCEPT !.discovery_dirty = TRUE, !.hist.dirtied = TRUE,
                            !.hist.changed = TRUE,
                            !.hist.dirtyAge = IF g.ws_configured THEN 0 ELSE @]
            ELSE g1
    ELSE g

checkUDP(g, pkt) ==
    IF pkt.parse /\ pkt.type = "discovery" /\ pkt.ip # ZeroIp
    THEN LET changed == g.discovered_server_ip # pkt.ip
                        \/ g.discovered_server_port # pkt.port
             g1 == [ saveLastServerIp(g, pkt.ip)
                       EXCEPT !.discovered_server_ip = pkt.ip,
                              !.discovered_server_port = pkt.port,
                              !.last_server_ip = pkt.ip ]
         IN IF changed
            THEN [g1 EXCEPT !.discovery_dirty = TRUE, !.hist.dirtied = TRUE,
                            !.hist.changed = TRUE,
                            !.hist.dirtyAge = IF g.ws_configured THEN 0 ELSE @]
            ELSE g1
    ELSE g

\* the discovery cache that setup() builds from stored preferences p: the
\* stored host, and the port the firmware is compiled with (line 65)
Restored(p) == [ip |-> p.last_server_ip, port |-> DefaultPort]

-----------------------------------------------------------------------------
(* handleWifiConnection *)

\* handleWifiConnection that stays armed after the station has associated
handleWifiConnection_staysArmed(g, mdnsOk, answer) ==
    IF ~g.wifi_connecting THEN g
    ELSE IF g.wifi_status
    THEN tryConnectWebSocket(
             [g EXCEPT !.udp_started = TRUE,
                       !.win_wifi = "closed", !.hist.wup = TRUE],
             mdnsOk, answer)
    ELSE IF now - g.wifi_connect_start_ms > WifiDeadlineMs
    THEN [g EXCEPT !.wifi_connecting = FALSE,
                   !.win_wifi = IF g.win_wifi = "closed" THEN "closed"
                                ELSE "msg",
                   !.hist.wfail = TRUE]
    ELSE g

\* handleWifiConnection that calls connectToWifi again at the deadline
handleWifiConnection_retries(g, mdnsOk, answer) ==
    IF ~g.wifi_connecting THEN g
    ELSE IF g.wifi_status
    THEN tryConnectWebSocket(
             [g EXCEPT !.wifi_connecting = FALSE, !.udp_started = TRUE,
                       !.win_wifi = "closed", !.hist.wup = TRUE],
             mdnsOk, answer)
    ELSE IF now - g.wifi_connect_start_ms > WifiDeadlineMs
    THEN connectToWifi([g EXCEPT !.hist.wfail = TRUE])
    ELSE g

handleWifiConnection(g, mdnsOk, answer) ==
    IF ~g.wifi_connecting THEN g
    ELSE IF g.wifi_status
    THEN tryConnectWebSocket(
             [g EXCEPT !.wifi_connecting = FALSE, !.udp_started = TRUE,
                       !.win_wifi = "closed", !.hist.wup = TRUE],
             mdnsOk, answer)
    ELSE IF now - g.wifi_connect_start_ms > WifiDeadlineMs
    THEN [g EXCEPT !.wifi_connecting = FALSE,
                   !.win_wifi = IF g.win_wifi = "closed" THEN "closed"
                                ELSE "msg",
                   !.hist.wfail = TRUE]
    ELSE g

-----------------------------------------------------------------------------
(* loop(), lines 260-275: the teardown rule and the reconnect gate *)

\* the teardown rule without regard for the state of the push channel
Teardown_whileConnected(g) ==
    IF now - g.last_http_success_ms < RecentContactMs /\ g.ws_configured
    THEN [ g EXCEPT !.ws_configured = FALSE, !.ws_host = "",
                    !.hist.teardown = TRUE, !.hist.dirtyAge = -1 ]
    ELSE g

Teardown(g) ==
    IF ~g.is_connected /\ now - g.last_http_success_ms < RecentContactMs
       /\ g.ws_configured
    THEN [ wsDisconnect(g) EXCEPT !.ws_configured = FALSE, !.ws_host = "",
                                  !.hist.teardown = TRUE,
                                  !.hist.dirtyAge = -1 ]
    ELSE g

\* the gate open already at 15 s
GateOpen_atFifteen(g) ==
    /\ ~g.ws_configured \/ g.discovery_dirty
    /\ now - g.last_ws_begin_ms >= ReconnectGateMs

GateOpen(g) ==
    /\ ~g.ws_configured \/ g.discovery_dirty
    /\ now - g.last_ws_begin_ms > ReconnectGateMs

\* the reconnect gate without regard for the last contact
Reconnect_unconditional(g, mdnsOk, answer) ==
    IF GateOpen(g)
    THEN tryConnectWebSocket([g EXCEPT !.discovery_dirty = FALSE],
                             mdnsOk, answer)
    ELSE g

Reconnect(g, mdnsOk, answer) ==
    IF GateOpen(g)
    THEN LET g1 == [g EXCEPT !.discovery_dirty = FALSE]
             g2 == tryConnectWebSocket(g1, mdnsOk, answer)
         IN IF now - g1.last_http_success_ms >= RecentContactMs
            THEN [g2 EXCEPT !.hist.prevLocate =
                                IF ~g2.hist.located THEN @
                                ELSE IF g2.server_ip = "" THEN now ELSE -1]
            ELSE g1
    ELSE g

loopGate(g, mdnsOk, answer) ==
    IF g.wifi_status
    THEN Reconnect(Teardown(g), mdnsOk, answer)
    ELSE g

-----------------------------------------------------------------------------
(* Settings UI callbacks, delivered by lv_timer_handler() *)

\* btn_scan_wifi: showWifiScanWindow, which ends in scanNetworks
\* the scan without WiFi.disconnect
showWifiScanWindow_keepsLink(g) ==
    IF g.win_wifi # "closed" THEN g
    ELSE [g EXCEPT !.win_wifi = "list"]

showWifiScanWindow(g) ==
    IF g.win_wifi # "closed" THEN g
    ELSE [g EXCEPT !.win_wifi = "list", !.wifi_status = FALSE,
                   !.wifi_begun = FALSE, !.hist.joined = ""]

\* close button of the window
closeWindow(g) == [g EXCEPT !.win_wifi = "closed"]

\* a network of the scan list is clicked
selectNetwork(g, ssid) == [g EXCEPT !.wifi_ssid = ssid, !.win_wifi = "pass"]

\* keyboard LV_EVENT_READY
keyboardReady(g, pass) ==
    connectToWifi(savePreferences(
        [g EXCEPT !.wifi_pass = pass, !.win_wifi = "msg"]))

\* keyboard LV_EVENT_CANCEL
keyboardCancel(g) == [g EXCEPT !.win_wifi = "list"]

-----------------------------------------------------------------------------
(* The callbacks one webSocket.loop() call delivers.  The client library    *)
(* has no socket ("none"), a socket without a completed handshake ("tcp")   *)
(* or an open channel ("open"); it opens sockets by itself while it has     *)
(* none, and reports the loss or the failure of a socket as DISCONNECTED.   *)

WsEvents ==
    { [type |-> t, frame |-> NoFrame] :
          t \in {"ATTEMPT", "CONNECTED", "DISCONNECTED", "ERROR"} }
    \cup { [type |-> "TEXT", frame |-> f] : f \in Frames }

WsEventEnabled(g, e) ==
    CASE e.type = "ATTEMPT" -> g.ws_link = "none" /\ g.wifi_status
      [] e.type = "CONNECTED" -> g.ws_link = "tcp" /\ g.wifi_status
      [] e.type = "DISCONNECTED" -> g.ws_link # "none"
      [] e.type = "ERROR" -> g.ws_link # "none"
      [] e.type = "TEXT" -> g.ws_link = "open" /\ g.wifi_status

WsDeliver(g, e) ==
    LET g1 == [g EXCEPT !.hist.event = e.type]
    IN CASE e.type = "ATTEMPT" -> [g EXCEPT !.ws_link = "tcp"]
         [] e.type = "CONNECTED" ->
                webSocketEvent([g1 EXCEPT !.ws_link = "open"], e)
         [] e.type = "DISCONNECTED" ->
                webSocketEvent([g1 EXCEPT !.ws_link = "none"], e)
         [] e.type = "ERROR" -> webSocketEvent(g1, e)
         [] e.type = "TEXT" -> webSocketEvent(g1, e)


-----------------------------------------------------------------------------
(* Initial state: the globals' initialisers, then setup() *)

Prefs(s, ip) ==
    [ssid |-> s, pass |-> IF s = "" THEN "" ELSE "secret", last_server_ip |-> ip]

\* what the Preferences hold at boot, by environment
StoredPrefs(e) ==
    CASE e = "steady" -> { Prefs(HomeSsid, HostA), Prefs(HomeSsid, ""),
                           Prefs(CaptiveSsid, "") }
      [] e = "radio" -> { Prefs(HomeSsid, HostA) }
      [] e = "discovery" -> { Prefs(HomeSsid, HostA) }
      [] e = "settings" -> { Prefs(HomeSsid, HostA), Prefs("", "") }
      [] e = "posters" -> { Prefs(HomeSsid, HostA) }

\* the session fields and system metrics on display
Projected(id, paused, count, v) ==
    [ session_id |-> id, paused |-> paused, count |-> count,
      cur |-> v.cur, dur |-> v.dur, cpu10 |-> v.cpu10, ram10 |-> v.ram10,
      disk10 |-> v.disk10, users |-> v.users, uptime |-> v.uptime ]
NoRef == [ set |-> FALSE, body |-> NoFrame, inp |-> NoInput,
           result |-> Projected("", FALSE, 0, NoView) ]

\* the globals after setup() with environment e and stored preferences p
Boot(e, p) ==
    /\ env = e
    /\ now = 0
    /\ pc = "ws"
    /\ wifi_status = FALSE
    /\ wifi_begun = (p.ssid # "")
    /\ udp_started = FALSE
    /\ ws_link = "none"
    /\ prefs = p
    /\ win_wifi = "closed"
    /\ sprite_poster = "black"
    /\ wifi_ssid = p.ssid
    /\ wifi_pass = p.pass
    /\ server_ip = ""
    /\ server_port = DefaultPort
    /\ is_connected = FALSE
    /\ ws_configured = FALSE
    /\ last_ws_begin_ms = 0
    /\ ws_host = ""
    /\ ws_port = DefaultPort
    /\ mdns_started = FALSE
    /\ discovered_server_ip = p.last_server_ip
    /\ discovered_server_port = DefaultPort
    /\ last_server_ip = p.last_server_ip
    /\ wifi_connecting = (p.ssid # "")
    /\ wifi_connect_start_ms = 0
    /\ last_http_poll_ms = 0
    /\ discovery_dirty = FALSE
    /\ last_http_success_ms = 0
    /\ ws_payload_ready = FALSE
    /\ ws_payload = NoFrame
    /\ last_ws_process_ms = 0
    /\ last_poster_fetch_ms = 0
    /\ current_poster_url = ""
    /\ total_sessions = 0
    /\ np_session_id = ""
    /\ np_is_paused = FALSE
    /\ ui_conn_line1 = ""
    /\ ui_conn_line2 = NoDetail
    /\ ui_status_color = ColRed
    /\ last_user_activity = 0
    /\ screensaver_active = FALSE
    /\ hist = [ op |-> "setup", begin |-> FALSE, again |-> FALSE,
                teardown |-> FALSE, get |-> FALSE, code |-> 0, gap |-> -1,
                pullOk |-> FALSE,
                body |-> NoFrame, dirtyAge |-> -1, event |-> "none",
                flen |-> -1, failed |-> FALSE, same |-> FALSE,
                age |-> -1, prevFetch |-> -1, located |-> FALSE,
                mdns |-> FALSE, pkt |-> NoPacket, wbegin |-> (p.ssid # ""),
                wup |-> FALSE, wfail |-> FALSE,
                decoded |-> -1, fetch |-> "none", dirtied |-> FALSE,
                arrival |-> -1, begun |-> FALSE, changed |-> FALSE,
                prevGet |-> -1, prevLocate |-> -1, contact |-> FALSE,
                joined |-> p.ssid,
                queued |-> 0, latest |-> NoFrame,
                twice |-> FALSE, ref |-> NoRef, touched |-> FALSE,
                woke |-> FALSE ]

Init ==
    /\ \E e \in Envs : \E p \in StoredPrefs(e) : Boot(e, p)
    /\ inp = NoInput
    /\ view = NoView
    /\ dl = NoFetch

-----------------------------------------------------------------------------
(* Actions: the steps of one loop() iteration *)

Step(from, to, g) ==
    /\ pc = from
    /\ pc' = to
    /\ now' = now
    /\ env' = env
    /\ Commit(g)

\* line 236: if (ws_configured) webSocket.loop(); the push endpoint
\* leaves connection attempts unanswered where the settings UI is in use
WebSocketLoop ==
    \/ /\ ws_configured
       /\ env # "settings"
       /\ \E e \in WsEvents :
              /\ WsEventEnabled(G, e)
              /\ Step("ws", "process", WsDeliver(Start("ws"), e))
    \/ Step("ws", "process", Start("ws"))

\* line 238
ProcessWsMessage ==
    \E res \in PosterResultsFor(ws_payload) :
        /\ Step("process", "ui", processWsMessage(Start("process"), res))

\* line 240: lv_timer_handler() runs the callback of at most one UI event
UiNone == Step("ui", "wifi", Start("ui"))

UiScan ==
    /\ env = "settings"
    /\ win_wifi = "closed"
    /\ Step("ui", "wifi", showWifiScanWindow(Start("scan")))

UiClose ==
    /\ env = "settings"
    /\ win_wifi # "closed"
    /\ Step("ui", "wifi", closeWindow(Start("close")))

UiSelect ==
    /\ env = "settings"
    /\ win_wifi = "list"
    /\ \E ssid \in Ssids :
           Step("ui", "wifi", selectNetwork(Start("select"), ssid))

UiReady ==
    /\ env = "settings"
    /\ win_wifi = "pass"
    /\ \E pass \in Passwords :
           Step("ui", "wifi", keyboardReady(Start("ready"), pass))

UiCancel ==
    /\ env = "settings"
    /\ win_wifi = "pass"
    /\ Step("ui", "wifi", keyboardCancel(Start("cancel")))

\* line 250
HandleWifiConnection ==
    \E mdnsOk \in BOOLEAN, answer \in MdnsAnswers :
        /\ Step("wifi", "udp",
                handleWifiConnection(Start("wifi"), mdnsOk, answer))

\* lines 252-254; no datagram pending is a step that changes nothing
CheckUDP ==
    \/ /\ wifi_status
       /\ env = "discovery"
       /\ \E pkt \in Packets : Step("udp", "poll", checkUDP(Start("udp"), pkt))
    \/ Step("udp", "poll", Start("udp"))

\* the answers of the pull endpoint: any, but those of a healthy server
\* where the settings UI is in use; sessions have posters in the "posters"
\* environment
Answers ==
    CASE env = "settings" -> { [code |-> 200, body |-> PlayBody] }
      [] env = "posters" ->
             { [code |-> c, body |-> b] :
                   c \in {200, -1}, b \in {EmptyBody, PosterBody} }
      [] OTHER -> { [code |-> c, body |-> b] : c \in HttpCodes, b \in Bodies }

\* polling whether or not push is connected
PollWanted_ignoresPush(g) == g.wifi_status

\* line 256: the condition under which loop() calls pollDashboardHttp
PollWanted(g) == g.wifi_status /\ ~g.is_connected

\* lines 256-258
PollDashboardHttp ==
    /\ IF PollWanted(G)
       THEN \E a \in Answers : \E res \in PosterResultsFor(a.body) :
                Step("poll", "gate",
                     pollDashboardHttp(Start("poll"), a.code, a.body, res))
       ELSE Step("poll", "gate", Start("poll"))

\* lines 260-275
LoopGate ==
    \E mdnsOk \in BOOLEAN, answer \in MdnsAnswers :
        /\ Step("gate", "delay", loopGate(Start("gate"), mdnsOk, answer))

\* line 277: the iteration ends; the clock has advanced when the next one
\* starts, and the radio may have associated or lost its association
\* a stored time after the origin of time has moved by d
Rebase(t, d) == IF t < 0 THEN t ELSE IF t < d THEN 0 ELSE t - d

RebaseAll(g, d) ==
    [g EXCEPT !.last_ws_begin_ms = Rebase(@, d),
              !.wifi_connect_start_ms = Rebase(@, d),
              !.last_http_poll_ms = Rebase(@, d),
              !.last_http_success_ms = Rebase(@, d),
              !.last_ws_process_ms = Rebase(@, d),
              !.last_poster_fetch_ms = Rebase(@, d),
              !.hist.arrival = Rebase(@, d),
              !.hist.prevGet = Rebase(@, d),
              !.hist.prevLocate = Rebase(@, d),
              !.hist.prevFetch = Rebase(@, d)]

\* WiFi.status() at the next iteration: in the "radio" environment the
\* station associates at any time after WiFi.begin and may lose the
\* association again; in the others it associates at once and keeps it
Radio == IF env = "radio" THEN { up \in BOOLEAN : up => wifi_begun }
                          ELSE { wifi_begun }

Tick == IF env = "settings" THEN TickMs \div 2 ELSE TickMs

Delay ==
    /\ pc = "delay"
    /\ pc' = "ws"
    /\ env' = env
    /\ \E up \in Radio :
           LET g == [Start("delay") EXCEPT !.wifi_status = up,
                                           !.hist.dirtyAge =
                                               IF @ = 0 THEN 1 ELSE @]
           IN IF now + Tick <= Horizon
              THEN now' = now + Tick /\ Commit(g)
              ELSE now' = now /\ Commit(RebaseAll(g, Tick))

Next ==
    \/ WebSocketLoop
    \/ ProcessWsMessage
    \/ UiNone
    \/ UiScan
    \/ UiClose
    \/ UiSelect
    \/ UiReady
    \/ UiCancel
    \/ HandleWifiConnection
    \/ CheckUDP
    \/ PollDashboardHttp
    \/ LoopGate
    \/ Delay

Spec == Init /\ [][Next]_vars

\* the loop never stops iterating
FairSpec == Spec /\ WF_vars(Next)

\* the loop in the "steady" environment alone: no settings UI is touched and
\* no discovery datagram arrives
SteadyInit == Init /\ env = "steady"

SteadyNext ==
    \/ WebSocketLoop
    \/ ProcessWsMessage
    \/ UiNone
    \/ HandleWifiConnection
    \/ Step("udp", "poll", Start("udp"))
    \/ PollDashboardHttp
    \/ LoopGate
    \/ Delay

SteadySpec == SteadyInit /\ [][SteadyNext]_vars

\* loop() is called again and again
FairSteadySpec == SteadySpec /\ WF_vars(SteadyNext)

-----------------------------------------------------------------------------
(* ProjSpec: updateDashboardUI applied to one drawn payload, at boot or    *)
(* one poll interval later                                                  *)

ProjInit ==
    /\ Boot("steady", Prefs(HomeSsid, HostA))
    /\ inp \in ProjInputs
    /\ view = NoView
    /\ dl = NoFetch

Rest == << env, pc, wifi_begun, udp_started, ws_link, prefs,
           win_wifi, sprite_poster, wifi_ssid, wifi_pass, server_ip,
           server_port, is_connected, ws_configured, last_ws_begin_ms,
           ws_host, ws_port, mdns_started, discovered_server_ip,
           discovered_server_port, last_server_ip, wifi_connecting,
           wifi_connect_start_ms, last_http_poll_ms, discovery_dirty,
           last_http_success_ms, ws_payload_ready, ws_payload,
           last_ws_process_ms, last_poster_fetch_ms, current_poster_url,
           total_sessions, np_session_id, np_is_paused, ui_conn_line1,
           ui_conn_line2, ui_status_color, last_user_activity,
           screensaver_active, hist >>

ProjDelay ==
    /\ ~view.done /\ now = 0
    /\ now' = TickMs
    /\ UNCHANGED << Rest, wifi_status, inp, view, dl >>

Project ==
    /\ ~view.done
    /\ \E c \in Casts(inp) : view' = UpdateWidgets(view, inp, c)
    /\ UNCHANGED << Rest, wifi_status, now, inp, dl >>

ProjNext == ProjDelay \/ Project

ProjSpec == ProjInit /\ [][ProjNext]_vars

-----------------------------------------------------------------------------
(* DiscSpec: the handlers that read and write the discovery cache, called   *)
(* in any order once the radio is associated                                *)

DiscInit ==
    /\ \E p \in { Prefs(HomeSsid, HostA), Prefs(HomeSsid, ""),
                   Prefs(CaptiveSsid, "") } : Boot("discovery", p)
    /\ inp = NoInput
    /\ view = NoView
    /\ dl = NoFetch

\* lines 1105-1123: the radio has associated
DiscConnect ==
    /\ ~wifi_status
    /\ \E mdnsOk \in BOOLEAN, answer \in MdnsAnswers :
           Step(pc, pc, handleWifiConnection(
                            [Start("wifi") EXCEPT !.wifi_status = TRUE],
                            mdnsOk, answer))

\* lines 252-254
DiscPacket ==
    /\ wifi_status
    /\ \E pkt \in AllPackets :
           Step(pc, pc, [checkUDP(Start("udp"), pkt) EXCEPT !.hist.pkt = pkt])

\* lines 269-274, when the gate is open
DiscLocate ==
    /\ wifi_status
    /\ \E mdnsOk \in BOOLEAN, answer \in MdnsAnswers :
           Step(pc, pc, tryConnectWebSocket(Start("gate"), mdnsOk, answer))

DiscNext == DiscConnect \/ DiscPacket \/ DiscLocate

DiscSpec == DiscInit /\ [][DiscNext]_vars

-----------------------------------------------------------------------------
(* MailSpec: the push mailbox under a tick shorter than the 250 ms throttle. *)
(* An iteration is webSocket.loop(), processWsMessage(), delay; the station  *)
(* associates at once and the locator finds HostA.                           *)

MailTickMs == 125
MailTicks == 6
MailFrames == Frames \cup {PlayBody, PosterBody}
MailEvents ==
    { [type |-> t, frame |-> NoFrame] :
          t \in {"ATTEMPT", "CONNECTED", "DISCONNECTED", "ERROR"} }
    \cup { [type |-> "TEXT", frame |-> f] : f \in MailFrames }

\* line 1246: the frames the callback stores
Accepted(frame) == frame.len # 0 /\ frame.len <= MaxFrameLen

MailInit ==
    /\ Boot("steady", Prefs(HomeSsid, HostA))
    /\ inp = NoInput
    /\ view = NoView
    /\ dl = NoFetch

MailConnect ==
    /\ ~wifi_status
    /\ Step("ws", "ws",
            handleWifiConnection([Start("wifi") EXCEPT !.wifi_status = TRUE],
                                 TRUE, HostA))

\* line 236
MailLoop ==
    /\ wifi_status
    /\ \/ /\ ws_configured
          /\ \E e \in MailEvents :
                 /\ WsEventEnabled(G, e)
                 /\ LET g == WsDeliver(Start("ws"), e)
                        stored == e.type = "TEXT" /\ Accepted(e.frame)
                    IN Step("ws", "process",
                            [g EXCEPT !.hist.queued =
                                          IF ~stored THEN @
                                          ELSE IF @ < 0 THEN 1 ELSE @ + 1,
                                      !.hist.latest =
                                          IF stored THEN e.frame ELSE @])
       \/ Step("ws", "process", Start("ws"))

\* line 238
MailProcess ==
    \E res \in PosterResultsFor(ws_payload) :
        LET g == processWsMessage(Start("process"), res)
        IN Step("process", "delay",
                IF ws_payload_ready /\ ~g.ws_payload_ready
                THEN [g EXCEPT !.hist.queued = 0 - @]
                ELSE g)

\* line 277, and whatever else makes an iteration last MailTickMs
MailDelay ==
    /\ pc = "delay"
    /\ now + MailTickMs <= MailTicks * MailTickMs
    /\ pc' = "ws"
    /\ now' = now + MailTickMs
    /\ env' = env
    /\ Commit(Start("delay"))

MailNext == MailConnect \/ MailLoop \/ MailProcess \/ MailDelay

MailSpec == MailInit /\ [][MailNext]_vars

-----------------------------------------------------------------------------
(* StaleSpec: the mailbox of MailSpec together with the teardown rule and   *)
(* the reconnect gate.  An iteration is webSocket.loop(), processWsMessage() *)
(* and lines 260-277; it lasts StaleTickMs, or TickMs when something blocks. *)

StaleTickMs == 100
StaleTicks == 8

\* lines 260-277
StaleGate ==
    /\ pc = "delay"
    /\ pc' = "ws"
    /\ env' = env
    /\ \/ /\ (now % TickMs) + StaleTickMs <= StaleTicks * StaleTickMs
          /\ now' = now + StaleTickMs
       \/ /\ now + TickMs <= Horizon
          /\ now' = now + TickMs
    /\ Commit(loopGate(Start("gate"), TRUE, HostA))

StaleNext ==
    \/ (now <= WifiDeadlineMs /\ MailConnect)
    \/ MailLoop
    \/ MailProcess
    \/ StaleGate

StaleSpec == MailInit /\ [][StaleNext]_vars

-----------------------------------------------------------------------------
(* IdemSpec: whole payloads, sessions and numbers, pushed through the       *)
(* mailbox and decoded in any succession; inp holds the numbers of the      *)
(* payload in the mailbox.                                                  *)

IdemBodies == {EmptyBody, PlayBody, PosterBody}
IdemSystems == { System(425, 1000, 0, 2, 864000), System(0, 425, 999, 0, 50) }
IdemNumbers(body) ==
    { [sessions |-> ss, system |-> sys] :
        ss \in IF Len(body.sessions) = 0 THEN { << >> }
               ELSE { << Progress(1205, 1200) >>, << Progress(5, 1500) >> },
        sys \in IdemSystems }
IdemEvents ==
    { [type |-> t, frame |-> NoFrame] : t \in {"ATTEMPT", "CONNECTED"} }
    \cup { [type |-> "TEXT", frame |-> f] : f \in IdemBodies }

\* line 236
IdemLoop ==
    /\ wifi_status
    /\ pc = "ws"
    /\ pc' = "process"
    /\ now' = now
    /\ env' = env
    /\ UNCHANGED << view, dl >>
    /\ \/ /\ ws_configured
          /\ \E e \in IdemEvents :
                 /\ WsEventEnabled(G, e)
                 /\ Assign(WsDeliver(Start("ws"), e))
                 /\ IF e.type = "TEXT"
                    THEN inp' \in IdemNumbers(e.frame)
                    ELSE inp' = inp
       \/ Assign(Start("ws")) /\ inp' = inp

\* line 238
IdemProcess ==
    /\ pc = "process"
    /\ pc' = "delay"
    /\ now' = now
    /\ env' = env
    /\ UNCHANGED << inp, dl >>
    /\ \E res \in PosterResultsFor(ws_payload), c \in Casts(inp),
          keep \in BOOLEAN :
           LET g == processWsMessage(Start("process"), res)
               decoded == g.hist.body # NoFrame
               v == IF decoded THEN UpdateWidgets(view, inp, c) ELSE view
               result == Projected(g.np_session_id, g.np_is_paused,
                                   g.total_sessions, v)
           IN /\ view' = v
              /\ Assign([g EXCEPT
                     !.hist.twice = /\ decoded /\ hist.ref.set
                                    /\ hist.ref.body = g.hist.body
                                    /\ hist.ref.inp = inp,
                     !.hist.ref = IF decoded /\ keep
                                  THEN [ set |-> TRUE, body |-> g.hist.body,
                                         inp |-> inp, result |-> result ]
                                  ELSE @])

IdemNext == MailConnect \/ IdemLoop \/ IdemProcess \/ MailDelay

IdemSpec == MailInit /\ [][IdemNext]_vars

-----------------------------------------------------------------------------
(* TouchSpec: the mailbox iteration of MailSpec with the touch panel read   *)
(* by lv_timer_handler() and the screensaver check; once, an iteration     *)
(* lasts as long as the screensaver timeout.                                *)

TouchTicks == 4
TouchEvents ==
    { [type |-> t, frame |-> NoFrame] : t \in {"ATTEMPT", "CONNECTED"} }
    \cup { [type |-> "TEXT", frame |-> f] : f \in {EmptyBody, PlayBody} }

\* line 236
TouchLoop ==
    /\ wifi_status
    /\ \/ /\ ws_configured
          /\ \E e \in TouchEvents :
                 /\ WsEventEnabled(G, e)
                 /\ Step("ws", "process", WsDeliver(Start("ws"), e))
       \/ Step("ws", "process", Start("ws"))

\* line 238
TouchProcess ==
    \E res \in PosterResultsFor(ws_payload) :
        Step("process", "ui", processWsMessage(Start("process"), res))

\* line 240: lv_timer_handler() reads the input device
TouchRead ==
    \E touched \in BOOLEAN :
        Step("ui", "saver", my_touchpad_read(Start("ui"), touched))

\* line 244
CheckScreensaver ==
    Step("saver", "delay", checkScreensaver(Start("saver")))

TouchDelay ==
    /\ pc = "delay"
    /\ pc' = "ws"
    /\ env' = env
    /\ \/ /\ (now % ScreensaverTimeoutMs) + MailTickMs
                  <= TouchTicks * MailTickMs
          /\ now' = now + MailTickMs
       \/ /\ now < ScreensaverTimeoutMs
          /\ now' = now + ScreensaverTimeoutMs
    /\ Commit(Start("delay"))

TouchNext ==
    \/ MailConnect
    \/ TouchLoop
    \/ TouchProcess
    \/ TouchRead
    \/ CheckScreensaver
    \/ TouchDelay

TouchSpec == MailInit /\ [][TouchNext]_vars

-----------------------------------------------------------------------------
(* FetchSpec: one call of downloadPoster                                    *)

FetchInit ==
    /\ Boot("posters", Prefs(HomeSsid, HostA))
    /\ inp = NoInput
    /\ view = NoView
    /\ dl = NoFetch

\* lines 1532-1544: the WiFi check and the GET
HttpGet ==
    /\ dl.pc = "call"
    /\ \E up \in BOOLEAN, code \in {200, 404}, len \in Lens :
           /\ wifi_status' = up
           /\ dl' = IF up /\ code = 200
                    THEN [dl EXCEPT !.pc = "malloc", !.len = len]
                    ELSE [dl EXCEPT !.pc = "done"]
    /\ UNCHANGED << Rest, now, inp, view >>

\* lines 1549-1552: the buffer is allocated, or the call gives up
Malloc ==
    /\ dl.pc = "malloc"
    /\ \E ok \in BOOLEAN :
           dl' = IF ok
                 THEN [dl EXCEPT !.pc = "avail", !.cap = FirstCap(dl.len)]
                 ELSE [dl EXCEPT !.pc = "done"]
    /\ UNCHANGED << Rest, wifi_status, now, inp, view >>

\* lines 1554-1563: the loop condition and the bytes available
Available ==
    /\ dl.pc = "avail"
    /\ \E connected \in BOOLEAN, avail \in Avails :
           dl' = IF ~connected THEN [dl EXCEPT !.pc = "decode"]
                 ELSE IF avail <= 0 THEN [dl EXCEPT !.pc = "idle"]
                 ELSE IF avail > dl.cap - dl.used
                 THEN [dl EXCEPT !.pc = "grow", !.want = avail,
                                 !.next_cap = dl.cap]
                 ELSE [dl EXCEPT !.pc = "read", !.want = avail]
    /\ UNCHANGED << Rest, wifi_status, now, inp, view >>

\* lines 1557-1559: nothing to read; after delay(1) the loop goes on unless
\* the connection is gone
Idle ==
    /\ dl.pc = "idle"
    /\ \E connected \in BOOLEAN :
           dl' = IF connected THEN [dl EXCEPT !.pc = "avail"]
                              ELSE [dl EXCEPT !.pc = "decode"]
    /\ UNCHANGED << Rest, wifi_status, now, inp, view >>

\* lines 1564-1570: one pass of the growth loop
Grow ==
    /\ dl.pc = "grow"
    /\ MustGrow(dl)
    /\ dl' = [dl EXCEPT !.next_cap = GrowOnce(dl.next_cap)]
    /\ UNCHANGED << Rest, wifi_status, now, inp, view >>

\* lines 1571-1578: the buffer is moved to the new size, or stays as it is
\* when realloc fails; the read is cut to the room there is
Realloc ==
    /\ dl.pc = "grow"
    /\ ~MustGrow(dl)
    /\ \E ok \in BOOLEAN :
           LET cap == IF dl.next_cap # dl.cap /\ ok THEN dl.next_cap
                                                   ELSE dl.cap
               want == IF dl.want > cap - dl.used THEN cap - dl.used
                                                  ELSE dl.want
           IN dl' = [dl EXCEPT !.pc = "read", !.cap = cap, !.want = want,
                               !.excess = @ \/ (dl.want > cap - dl.used
                                                /\ cap = PosterCapBytes)]
    /\ UNCHANGED << Rest, wifi_status, now, inp, view >>

\* lines 1580-1584
ReadBytes ==
    /\ dl.pc = "read"
    /\ IF dl.want = 0
       THEN dl' = [dl EXCEPT !.pc = "decode"]
       ELSE \E got \in Gots(dl.want) :
                dl' = IF got <= 0 THEN [dl EXCEPT !.pc = "decode"]
                      ELSE IF dl.used + got >= dl.cap
                      THEN [dl EXCEPT !.pc = "decode", !.used = dl.used + got]
                      ELSE [dl EXCEPT !.pc = "avail", !.used = dl.used + got]
    /\ UNCHANGED << Rest, wifi_status, now, inp, view >>

\* lines 1586-1611: what was received is decoded into the sprite, blanked
\* first; with nothing received the call returns false
Decode ==
    /\ dl.pc = "decode"
    /\ UNCHANGED << env, now, pc, inp, view >>
    /\ IF dl.used > 0
       THEN \E ok \in BOOLEAN :
                /\ dl' = [dl EXCEPT !.pc = "done", !.tried = TRUE, !.ret = ok]
                /\ Assign([G EXCEPT !.sprite_poster =
                                        IF ok THEN "/poster/s2" ELSE "black"])
       ELSE dl' = [dl EXCEPT !.pc = "done"] /\ Assign(G)

FetchNext ==
    \/ HttpGet \/ Malloc \/ Available \/ Idle \/ Grow \/ Realloc
    \/ ReadBytes \/ Decode

FetchSpec == FetchInit /\ [][FetchNext]_vars

\* the call keeps executing until it returns
FairFetchSpec == FetchSpec /\ WF_vars(FetchNext)

-----------------------------------------------------------------------------
(* Properties *)

Stale == now - last_http_success_ms > GraceMs
Projection(g) ==
    << g.total_sessions, g.np_session_id, g.np_is_paused,
       g.current_poster_url, g.sprite_poster, g.last_poster_fetch_ms >>

\* C1, as claimed: when checkUDP raises discovery_dirty on a configured push
\* channel, the channel is directed at the announced address by the end of
\* the next loop iteration, whatever the time since the last begin.
C1_AddressChangeBypassesGate ==
    (pc = "delay" /\ hist.dirtyAge = 1 /\ wifi_status /\ ws_configured)
        => (ws_host = discovered_server_ip /\ ws_port = discovered_server_port)

\* C2, as claimed: with the network up and the last contact more than 20 s
\* old, the status line eventually reads "Nomad Pi: Disconnected", unless a
\* contact succeeds or the network goes down first.
C2_StaleLeadsToDisconnected ==
    (wifi_status /\ Stale)
        ~> (ui_conn_line1 = StDisconnected \/ ~Stale \/ ~wifi_status)

\* C3: a pull answered 200 with a decodable body is only made while push is
\* not connected; it sets the status line to "Nomad Pi: Online" in green and
\* the last contact to now, and projects the body as processWsMessage
\* projects the same body arriving as a push frame.
C3_PullSuccess ==
    [][ (pc = "poll" /\ hist'.pullOk)
            => /\ ~is_connected
               /\ ui_conn_line1' = StOnline /\ ui_status_color' = ColGreen
               /\ last_http_success_ms' = now
               /\ total_sessions' = Len(hist'.body.sessions)
               /\ Projection(G') =
                      Projection(processWsMessage(
                          [G EXCEPT !.ws_payload = hist'.body,
                                    !.ws_payload_ready = TRUE,
                                    !.last_ws_process_ms = now - ThrottleMs],
                          IF hist'.fetch = "none" THEN "nodata"
                                                  ELSE hist'.fetch)) ]_vars

C3_Witness ==
    /\ pc = "gate" /\ hist.pullOk /\ ~is_connected
    /\ ui_conn_line1 = StOnline /\ total_sessions = 1

\* C4, as claimed: a transport failure (push DISCONNECTED or ERROR, pull
\* answered with a code other than 200) that comes within 20 s of the last
\* contact leaves the status line and its colour as they were.
C4_FailureWithinGraceIsSilent ==
    [][ ( /\ \/ pc = "ws" /\ hist'.event \in {"DISCONNECTED", "ERROR"}
             \/ pc = "poll" /\ hist'.get /\ hist'.code # 200
          /\ ~Stale )
            => UNCHANGED << ui_conn_line1, ui_status_color >> ]_vars

\* C5, as claimed: push is not regarded as connected once it has been silent
\* for longer than the longest window the controller knows, 30 s.
C5_SilentPushIsDegraded ==
    ~(is_connected /\ wifi_status
      /\ now - last_http_success_ms > RecentContactMs)

\* C6: no pull request is issued in an iteration in which push is connected.
C6_NoPullWhileConnected ==
    hist.get => (pc = "gate" /\ ~is_connected)

C6_Witness ==
    /\ pc = "gate" /\ is_connected /\ wifi_status /\ AddressUsable(G)
    /\ now - last_http_poll_ms >= PollIntervalMs
    /\ ~hist.get

\* C7: a pull request is never issued less than 5000 ms after the previous
\* one, and with the network up, push not connected and a usable address, it
\* is issued in the first iteration that finds 5000 ms elapsed since the
\* previous poll.
C7_PullInterval ==
    [][ pc = "poll"
            => /\ (hist'.get /\ hist.prevGet >= 0)
                      => now - hist.prevGet >= PollIntervalMs
               /\ ( /\ wifi_status /\ ~is_connected /\ AddressUsable(G)
                    /\ now - last_http_poll_ms >= PollIntervalMs )
                      => hist'.get ]_vars

C7_Witness ==
    /\ pc = "gate" /\ hist.get /\ hist.gap = PollIntervalMs
    /\ wifi_status /\ ~is_connected /\ AddressUsable(G)

\* C8, as claimed: a webSocket.begin that follows an earlier one comes more
\* than 15 s after it, unless checkUDP saw the address change in between.
C8_BeginsSpaced ==
    [][ (hist'.begin /\ hist.begun /\ ~hist.changed)
            => now - last_ws_begin_ms > ReconnectGateMs ]_vars

\* C8, amended: a webSocket.begin started by the loop's reconnect gate comes
\* more than 15 s after the previous begin, whichever path made that one.
C8_GateBeginsSpaced ==
    [][ (pc = "gate" /\ hist'.begin)
            => now - last_ws_begin_ms > ReconnectGateMs ]_vars

C8_Witness ==
    /\ pc = "delay" /\ hist.begin /\ hist.again
    /\ last_ws_begin_ms = now

\* C9, as claimed: once a contact has succeeded, no webSocket.begin is made
\* less than 30 s after the last successful contact.
C9_NoBeginAfterRecentContact ==
    [][ (hist'.begin /\ hist.contact)
            => now - last_http_success_ms >= RecentContactMs ]_vars

\* C9, amended: the loop's reconnect gate makes no webSocket.begin less than
\* 30 s after the last successful contact.
C9_GateSkipsAfterRecentContact ==
    [][ (pc = "gate" /\ hist'.begin)
            => now - last_http_success_ms >= RecentContactMs ]_vars

C9_Witness ==
    /\ pc = "delay" /\ hist.begin /\ hist.contact
    /\ now - last_http_success_ms >= RecentContactMs

\* C10, as claimed: when a text frame was delivered to webSocketEvent while
\* push is connected, the last contact is no earlier than the frame's
\* arrival once processWsMessage has run.
C10_EveryFrameRefreshes ==
    [][ (pc = "process" /\ hist.event = "TEXT" /\ is_connected)
            => last_http_success_ms' >= now ]_vars

\* C10, amended: processWsMessage refreshes the last contact exactly when it
\* decodes the frame in the mailbox, a frame of 1..20000 bytes that is valid
\* JSON, and then to the time of decoding, no earlier than the arrival.
C10_DecodedFrameRefreshes ==
    [][ pc = "process"
            => IF ws_payload_ready /\ ws_payload.parse
                  /\ now - last_ws_process_ms >= ThrottleMs
               THEN /\ last_http_success_ms' = now
                    /\ hist'.decoded = hist.arrival
                    /\ hist.arrival >= 0
                    /\ last_http_success_ms' >= hist.arrival
                    /\ ws_payload.len \in 1..MaxFrameLen
               ELSE UNCHANGED last_http_success_ms ]_vars

C10_Witness ==
    /\ pc = "ui" /\ hist.decoded >= 0 /\ is_connected
    /\ last_http_success_ms = now

\* C11: a text frame of length 0 or above 20000 bytes leaves the mailbox,
\* the projected dashboard state and the last contact as they were, and the
\* mailbox never holds more than 20000 bytes.
C11_OversizeFrameRejected ==
    [][ /\ ws_payload'.len <= MaxFrameLen
        /\ (pc = "ws" /\ (hist'.flen = 0 \/ hist'.flen > MaxFrameLen))
              => UNCHANGED << ws_payload, ws_payload_ready,
                              last_http_success_ms, total_sessions,
                              np_session_id, np_is_paused,
                              current_poster_url, sprite_poster >> ]_vars

C11_Witness ==
    /\ pc = "process" /\ hist.flen > MaxFrameLen /\ is_connected
    /\ ws_payload.len \in 1..MaxFrameLen

\* C12: when a payload fails to decode, in processWsMessage or as the body
\* of a 200 pull answer, the projected dashboard state, the last contact
\* and the status shown to the user are left as they were.
C12_DecodeFailureKeepsState ==
    [][ hist'.failed
          => UNCHANGED << np_session_id, np_is_paused, total_sessions,
                          current_poster_url, sprite_poster,
                          last_http_success_ms, ui_conn_line1,
                          ui_conn_line2, ui_status_color >> ]_vars

C12_Witness ==
    /\ hist.failed /\ hist.op = "process"
    /\ total_sessions = 1 /\ np_session_id = "s1"
    /\ ui_conn_line1 = StOnline

C12_PullWitness ==
    /\ hist.failed /\ hist.get /\ hist.code = 200
    /\ total_sessions = 1 /\ ui_conn_line1 = StOnline

\* C13: after a payload with an empty sessions array is decoded, no session
\* is projected (count 0, no session id, no poster URL) and no poster fetch
\* was made, however long ago the last fetch was.
C13_EmptySessionsProjectNothing ==
    (hist.body.parse /\ Len(hist.body.sessions) = 0)
        => /\ total_sessions = 0
           /\ np_session_id = ""
           /\ current_poster_url = ""
           /\ hist.fetch = "none"

C13_Witness ==
    /\ hist.body.parse /\ Len(hist.body.sessions) = 0
    /\ sprite_poster = "/poster/s2"
    /\ now - last_poster_fetch_ms > PosterRetryMs

\* C16: a poster fetch attempt comes at least 15 s after the previous
\* attempt, whether the URL changed or not and whatever the previous
\* attempt's outcome.
C16_FetchAttemptsSpaced ==
    (hist.fetch # "none" /\ hist.age >= 0) => hist.age >= PosterRateMs

C16_Witness ==
    /\ hist.fetch # "none" /\ ~hist.same
    /\ hist.age = PosterRateMs + TickMs

\* C17: when the focused session's poster URL equals the cached one, the
\* update fetches the poster exactly when more than 30 s have passed since
\* the last fetch attempt.
C17_SameUrlRefetchedAfterThirty ==
    (hist.same /\ hist.age >= 0)
        => (hist.fetch # "none" <=> hist.age > PosterRetryMs)

C17_Witness ==
    /\ hist.same /\ hist.fetch = "ok"
    /\ hist.age = PosterRetryMs + TickMs

C17_NoFetchWitness ==
    /\ hist.same /\ hist.fetch = "none" /\ hist.age = PosterRetryMs

\* C18: a poster fetch that fails, for want of data or because the image
\* does not decode, leaves the poster bitmap and the cached poster URL as
\* they were.
C18_FailedFetchKeepsBitmap ==
    [][ hist'.fetch \in {"nodata", "baddecode"}
          => UNCHANGED << sprite_poster, current_poster_url >> ]_vars

\* the part of C18 that the code keeps: the cached URL survives any failure
C18_FailedFetchKeepsUrl ==
    [][ hist'.fetch \in {"nodata", "baddecode"}
          => UNCHANGED current_poster_url ]_vars

\* C20: with the SSID "NomadPi" configured, every resolution of the server
\* address by tryConnectWebSocket yields 10.42.0.1, whatever the discovery
\* cache holds, and issues no mDNS query.
C20_CaptiveSsidUsesGateway ==
    (hist.located /\ wifi_ssid = CaptiveSsid)
        => (server_ip = CaptiveIp /\ ~hist.mdns)

C20_Witness ==
    /\ hist.located /\ wifi_ssid = CaptiveSsid
    /\ discovered_server_ip = HostA
    /\ server_ip = CaptiveIp

\* C14: a focused session with a positive duration is shown with a current
\* time between 0 and that duration, the bar ranging over the duration;
\* with a duration of 0 or less the bar is indeterminate (0..100 at 0).
C14_ProgressClamped ==
    (view.done /\ view.card)
        => IF inp.sessions[1].duration > 0
           THEN /\ 0 <= view.cur
                /\ view.cur * 10 <= inp.sessions[1].duration
                /\ view.bar_value = view.cur
           ELSE view.bar_max = 100 /\ view.bar_value = 0

\* the part of C14 that the code keeps: durations of a second and more
C14_WholeSecondsClamped ==
    (view.done /\ view.card /\ inp.sessions[1].duration >= 10)
        => /\ 0 <= view.cur /\ view.cur <= view.dur
           /\ view.dur = Trunc(inp.sessions[1].duration)
           /\ view.bar_max = view.dur /\ view.bar_value = view.cur

\* C15: after a decode every metric shown is 0 or more, and the cpu, ram
\* and disk percentages lie between 0 and 100.
C15_MetricsClamped ==
    view.done
        => /\ view.cpu10 \in 0..1000
           /\ view.ram10 \in 0..1000
           /\ view.disk10 \in 0..1000
           /\ view.users >= 0
           /\ view.uptime >= 0
           /\ view.cpu_sample \in 0..100
           /\ view.ram_sample \in 0..100

\* C19: during a poster fetch the bytes stored never exceed the buffer's
\* capacity, the capacity never exceeds 500000, also when realloc fails,
\* and each pass of the growth loop adds at least 16384 bytes unless the
\* ceiling clips it.
C19_BufferWithinCap ==
    [][ /\ dl'.used <= dl'.cap
        /\ dl'.cap <= PosterCapBytes
        /\ dl'.next_cap <= PosterCapBytes
        /\ (dl.pc = "grow" /\ dl'.pc = "grow")
              => \/ dl'.next_cap - dl.next_cap >= MinGrowBytes
                 \/ dl'.next_cap = PosterCapBytes ]_vars

C19_Witness ==
    /\ dl.pc = "done" /\ dl.len = -1
    /\ dl.cap = PosterCapBytes /\ dl.used = dl.cap

C19_ReallocFailedWitness ==
    /\ dl.pc = "read" /\ dl.next_cap > dl.cap
    /\ dl.used > 0 /\ dl.want = dl.cap - dl.used

\* C21: with an SSID other than the captive one, the locator returns the
\* cached discovery host and port without an mDNS query when the cache is
\* filled; it queries mDNS only when the cache is empty, stores a successful
\* answer in the cache, and otherwise reports no address: server_ip empty,
\* "Server: Waiting discovery", no push connection begun.
C21_LocatorOrder ==
    [][ (hist'.located /\ wifi_ssid # CaptiveSsid)
          => /\ hist'.mdns => discovered_server_ip = ""
             /\ discovered_server_ip # ""
                   => /\ server_ip' = discovered_server_ip
                      /\ server_port' = discovered_server_port
                      /\ UNCHANGED << discovered_server_ip,
                                      discovered_server_port >>
             /\ (discovered_server_ip = "" /\ server_ip' # "")
                   => /\ hist'.mdns
                      /\ discovered_server_ip' = server_ip'
                      /\ discovered_server_port' = server_port'
             /\ (discovered_server_ip = "" /\ server_ip' = "")
                   => /\ ui_conn_line1' = StWaiting
                      /\ ~hist'.begin
                      /\ discovered_server_ip' = "" ]_vars

C21_Witness ==
    /\ hist.located /\ hist.mdns /\ wifi_ssid = HomeSsid
    /\ server_ip = "" /\ ui_conn_line1 = StWaiting /\ ~ws_configured

C21_ResolvedWitness ==
    /\ hist.located /\ hist.mdns /\ wifi_ssid = HomeSsid
    /\ server_ip = HostA /\ discovered_server_ip = HostA /\ hist.begin

C21_CachedWitness ==
    /\ hist.located /\ ~hist.mdns /\ wifi_ssid = HomeSsid
    /\ server_ip = HostB /\ discovered_server_ip = HostB

\* C22: a valid discovery packet from a sender other than 0.0.0.0 makes the
\* cached discovery address the sender's IP and the announced port, and
\* raises discovery_dirty exactly when the IP or the port differs from the
\* cached one; a packet that does not parse or has another type changes
\* nothing.
C22_DiscoveryPacket ==
    [][ hist'.op = "udp"
          => IF hist'.pkt.parse /\ hist'.pkt.type = "discovery"
                /\ hist'.pkt.ip # ZeroIp
             THEN /\ discovered_server_ip' = hist'.pkt.ip
                  /\ discovered_server_port' = hist'.pkt.port
                  /\ hist'.dirtied
                        <=> (discovered_server_ip # hist'.pkt.ip
                             \/ discovered_server_port # hist'.pkt.port)
                  /\ hist'.dirtied => discovery_dirty'
                  /\ ~hist'.dirtied => UNCHANGED discovery_dirty
             ELSE UNCHANGED << discovered_server_ip, discovered_server_port,
                               last_server_ip, prefs, discovery_dirty,
                               server_ip, server_port, ws_host, ws_port >> ]_vars

C22_Witness ==
    /\ hist.op = "udp" /\ hist.pkt.ip = HostA /\ hist.pkt.port = AltPort
    /\ hist.dirtied /\ discovery_dirty
    /\ discovered_server_ip = HostA /\ discovered_server_port = AltPort

C22_SameAddressWitness ==
    /\ hist.op = "udp" /\ hist.pkt.type = "discovery" /\ hist.pkt.ip = HostB
    /\ ~hist.dirtied /\ ~discovery_dirty /\ discovered_server_ip = HostB

\* C23: every change of the cached discovery address, host or port, is
\* persisted: the address a reboot would restore from the preferences is
\* the cached one.
C23_CachePersisted ==
    Restored(prefs) = [ip |-> discovered_server_ip,
                       port |-> discovered_server_port]

\* the part of C23 that the code keeps: the host is persisted
C23_HostPersisted == prefs.last_server_ip = discovered_server_ip

\* C24: when the station is still not associated more than 15 s after
\* connectToWifi, handleWifiConnection reports the failure and clears
\* wifi_connecting; it reports it once, and nothing but a new call of
\* connectToWifi by the settings UI starts another attempt.
C24_WifiFailureReportedOnce ==
    [][ /\ (hist'.op = "wifi" /\ wifi_connecting /\ ~wifi_status
              /\ now - wifi_connect_start_ms > WifiDeadlineMs)
              => (hist'.wfail /\ ~wifi_connecting')
        /\ hist'.wfail
              => /\ wifi_connecting /\ ~wifi_connecting' /\ ~wifi_status
                 /\ now - wifi_connect_start_ms > WifiDeadlineMs
                 /\ ~hist'.wbegin
        /\ hist'.wbegin => hist'.op = "ready"
        /\ (~wifi_connecting /\ wifi_connecting') => hist'.wbegin
        /\ (wifi_begun' /\ ~wifi_begun) => hist'.wbegin ]_vars

C24_Witness ==
    /\ hist.op = "wifi" /\ hist.wfail /\ ~wifi_connecting /\ ~wifi_status
    /\ now - wifi_connect_start_ms = WifiDeadlineMs + TickMs

C24_InertWitness ==
    /\ hist.op = "wifi" /\ ~hist.wfail /\ ~wifi_connecting /\ ~wifi_status
    /\ wifi_begun /\ now - wifi_connect_start_ms >= 2 * WifiDeadlineMs

\* C25 as stated: after each connectToWifi the on-connected effects (the
\* UDP listener started, tryConnectWebSocket called) run exactly once, on
\* the first tick that finds the station associated, and that tick is not
\* later than the 15 s deadline.
C25_ConnectedOnceBeforeDeadline ==
    [][ /\ (hist'.op = "wifi" /\ wifi_connecting /\ wifi_status) => hist'.wup
        /\ hist'.wup
              => /\ wifi_connecting /\ wifi_status /\ ~wifi_connecting'
                 /\ udp_started' /\ hist'.located
                 /\ now - wifi_connect_start_ms <= WifiDeadlineMs
        /\ (~wifi_connecting /\ wifi_connecting') => hist'.wbegin ]_vars

\* C25 as amended: the on-connected effects run exactly once after each
\* connectToWifi, on the first tick that finds the station associated while
\* wifi_connecting is still set, be it before or after the 15 s deadline.
C25_ConnectedOnce ==
    [][ /\ (hist'.op = "wifi" /\ wifi_connecting /\ wifi_status) => hist'.wup
        /\ hist'.wup
              => /\ wifi_connecting /\ wifi_status /\ ~wifi_connecting'
                 /\ udp_started' /\ hist'.located /\ ~hist'.wfail
        /\ (~wifi_connecting /\ wifi_connecting') => hist'.wbegin ]_vars

C25_Witness ==
    /\ hist.op = "wifi" /\ hist.wup /\ udp_started /\ ~wifi_connecting
    /\ now - wifi_connect_start_ms > WifiDeadlineMs

C25_SecondAssociationWitness ==
    /\ hist.op = "wifi" /\ ~hist.wup /\ wifi_status /\ udp_started
    /\ ~wifi_connecting /\ hist.begun /\ ~ws_configured

\* C26: the text-frame callback only fills the mailbox (an accepted frame
\* becomes ws_payload and raises ws_payload_ready, a rejected one changes
\* nothing) and leaves the dashboard, poster, transport and timer state
\* alone; when processWsMessage consumes the mailbox it decodes exactly the
\* last accepted frame, however many arrived since the previous consumption.
C26_MailboxLatestWins ==
    [][ /\ hist'.event = "TEXT"
              => /\ << total_sessions, np_session_id, np_is_paused,
                       current_poster_url, sprite_poster,
                       last_poster_fetch_ms, last_http_success_ms,
                       last_ws_process_ms, is_connected, ui_conn_line1,
                       ui_conn_line2, ui_status_color >>'
                     = << total_sessions, np_session_id, np_is_paused,
                          current_poster_url, sprite_poster,
                          last_poster_fetch_ms, last_http_success_ms,
                          last_ws_process_ms, is_connected, ui_conn_line1,
                          ui_conn_line2, ui_status_color >>
                 /\ hist'.decoded = -1 /\ ~hist'.failed
                 /\ IF hist'.queued > hist.queued
                    THEN ws_payload_ready' /\ ws_payload' = hist'.latest
                    ELSE /\ ws_payload_ready' = ws_payload_ready
                         /\ ws_payload' = ws_payload
        /\ (hist'.op = "process" /\ ws_payload_ready /\ ~ws_payload_ready')
              => /\ hist.queued >= 1
                 /\ hist'.queued = 0 - hist.queued
                 /\ IF hist.latest.parse
                    THEN hist'.body = hist.latest /\ ~hist'.failed
                    ELSE hist'.body = NoFrame /\ hist'.failed
        /\ (hist'.op = "process" /\ ~(ws_payload_ready /\ ~ws_payload_ready'))
              => hist'.body = NoFrame /\ ~hist'.failed ]_vars

C26_Witness ==
    /\ hist.op = "process" /\ hist.body = PosterBody /\ hist.queued = -2
    /\ ~ws_payload_ready /\ np_session_id = "s2" /\ total_sessions = 1
    /\ now = 2 * ThrottleMs

C26_PendingWitness ==
    /\ hist.op = "ws" /\ hist.event = "TEXT" /\ hist.queued = 2
    /\ hist.latest = PosterBody /\ ws_payload = PosterBody
    /\ np_session_id = "s1"

\* C27: processWsMessage consumes the mailbox only when at least 250 ms
\* have passed since it last did; a call that finds a payload waiting and
\* 250 ms elapsed consumes it, and a call that finds less leaves the
\* payload waiting, so the throttle loses nothing.
C27_DecodesThrottled ==
    [][ /\ last_ws_process_ms' # last_ws_process_ms
              => /\ hist'.op = "process"
                 /\ ws_payload_ready /\ ~ws_payload_ready'
                 /\ last_ws_process_ms' = now
                 /\ now - last_ws_process_ms >= ThrottleMs
        /\ (hist'.op = "process" /\ ws_payload_ready)
              => IF now - last_ws_process_ms >= ThrottleMs
                 THEN /\ ~ws_payload_ready'
                      /\ last_ws_process_ms' = now
                      /\ (ws_payload.parse => hist'.body = ws_payload)
                 ELSE /\ ws_payload_ready' /\ ws_payload' = ws_payload
                      /\ hist'.body = NoFrame ]_vars

C27_Witness ==
    /\ hist.op = "process" /\ hist.body = PlayBody
    /\ last_ws_process_ms = now /\ now = 2 * ThrottleMs
    /\ hist.decoded = now - MailTickMs

C27_ThrottledWitness ==
    /\ hist.op = "process" /\ ws_payload_ready /\ ws_payload = PlayBody
    /\ last_ws_process_ms > 0 /\ now - last_ws_process_ms = MailTickMs

\* C28: at every tick boundary (the top of loop()) the stored ssid and pass
\* equal the in-memory wifi_ssid and wifi_pass, whatever UI events came
\* before.
C28_CredentialsPersisted ==
    pc = "ws" => (prefs.ssid = wifi_ssid /\ prefs.pass = wifi_pass)

\* C28, the part that holds: the password is stored whenever it is set, and
\* after the password keyboard's READY event both credentials are stored.
C28_PasswordPersisted ==
    /\ prefs.pass = wifi_pass
    /\ hist.op = "ready" => prefs.ssid = wifi_ssid

C28_CancelWitness ==
    /\ pc = "ws" /\ win_wifi = "list" /\ wifi_ssid = CaptiveSsid
    /\ prefs.ssid = HomeSsid

C29_StalePausedWitness ==
    /\ hist.op = "process" /\ hist.twice /\ hist.body = EmptyBody
    /\ np_is_paused /\ ~hist.ref.result.paused /\ total_sessions = 0

\* C30 as stated: a touch changes the user-activity timer and no other
\* variable of the program.
C30_TouchResetsTimerOnly ==
    [][ hist'.touched
          => /\ last_user_activity' = now
             /\ UNCHANGED << wifi_status, wifi_begun, udp_started, ws_link,
                   prefs, win_wifi, sprite_poster, wifi_ssid, wifi_pass,
                   server_ip, server_port, is_connected, ws_configured,
                   last_ws_begin_ms, ws_host, ws_port, mdns_started,
                   discovered_server_ip, discovered_server_port,
                   last_server_ip, wifi_connecting, wifi_connect_start_ms,
                   last_http_poll_ms, discovery_dirty, last_http_success_ms,
                   ws_payload_ready, ws_payload, last_ws_process_ms,
                   last_poster_fetch_ms, current_poster_url, total_sessions,
                   np_session_id, np_is_paused, ui_conn_line1, ui_conn_line2,
                   ui_status_color, screensaver_active >> ]_vars

\* C30 as amended: a touch resets the user-activity timer and dismisses the
\* screensaver when it is showing; it leaves the network, locator,
\* transport, mailbox, dashboard and poster state unchanged.
C30_TouchLeavesCoreState ==
    [][ hist'.touched
          => /\ last_user_activity' = now
             /\ ~screensaver_active'
             /\ UNCHANGED << wifi_status, wifi_begun, udp_started, ws_link,
                   prefs, win_wifi, sprite_poster, wifi_ssid, wifi_pass,
                   server_ip, server_port, is_connected, ws_configured,
                   last_ws_begin_ms, ws_host, ws_port, mdns_started,
                   discovered_server_ip, discovered_server_port,
                   last_server_ip, wifi_connecting, wifi_connect_start_ms,
                   last_http_poll_ms, discovery_dirty, last_http_success_ms,
                   ws_payload_ready, ws_payload, last_ws_process_ms,
                   last_poster_fetch_ms, current_poster_url, total_sessions,
                   np_session_id, np_is_paused, ui_conn_line1, ui_conn_line2,
                   ui_status_color >> ]_vars

C30_Witness ==
    /\ hist.op = "ui" /\ hist.touched /\ last_user_activity = now
    /\ hist.woke /\ ~screensaver_active
    /\ ws_payload_ready /\ is_connected /\ np_session_id = "s1"

C30_ScreensaverWitness ==
    /\ hist.op = "saver" /\ screensaver_active /\ is_connected
    /\ now - last_user_activity > ScreensaverTimeoutMs

\* C31: if from the third iteration on the station is associated and a
\* server address is set, every pull request is answered with a decodable
\* body and the push endpoint never refuses or drops a connection, then
\* is_connected eventually becomes true.
C31_PushEventuallyConnected ==
    [](/\ now >= 2 * TickMs => (wifi_status /\ server_ip # "")
       /\ hist.get => hist.pullOk
       /\ hist.event \notin {"ERROR", "DISCONNECTED"})
        => <>is_connected

\* C32: every call of downloadPoster returns, whatever the server sends
\* or fails to send.
C32_FetchReturns == <>(dl.pc = "done")

C32_ShortBodyWitness ==
    /\ dl.pc = "idle" /\ dl.len = 70000 /\ dl.used = 20000

\* C33: when the stream held more than the buffer at its 500000-byte
\* ceiling could take, downloadPoster ends without having run a decoder,
\* returns false and leaves the sprite as it was.
C33_ExcessAbortsFetch ==
    (dl.pc = "done" /\ (dl.excess \/ dl.len > PosterCapBytes))
        => (~dl.tried /\ ~dl.ret /\ sprite_poster = "black")

\* C33, the part that holds: no more than 500000 bytes are kept, and a call
\* that received nothing returns false without touching the sprite.
C33_NothingReceivedKeepsSprite ==
    (dl.pc = "done" /\ dl.used = 0)
        => (~dl.tried /\ ~dl.ret /\ sprite_poster = "black")

C33_TruncatedDecodedWitness ==
    /\ dl.pc = "done" /\ dl.excess /\ dl.used = PosterCapBytes
    /\ dl.tried /\ dl.ret /\ sprite_poster = "/poster/s2"

\* C34: while no address can be resolved, two consecutive runs of the locator
\* driven by the loop's reconnect gate are more than 15 s apart.
C34_LocatorGated ==
    [][(/\ hist'.op = "gate" /\ hist'.located /\ server_ip' = ""
        /\ hist.prevLocate >= 0)
           => now - hist.prevLocate > ReconnectGateMs]_vars

C34_QueriedTwiceWitness ==
    /\ hist.op = "gate" /\ hist.located /\ hist.mdns /\ server_ip = ""
    /\ hist.prevLocate = now /\ now >= RecentContactMs + TickMs

\* C35: the loop tears a configured push channel down under the recent-contact
\* rule only when a contact (handshake, decoded frame or pull body) has
\* succeeded since boot.
C35_TeardownNeedsContact == hist.teardown => hist.contact

C35_TornDownBeforeContactWitness ==
    /\ hist.teardown /\ ~hist.contact /\ hist.begun
    /\ ~ws_configured /\ last_http_success_ms = 0 /\ now < RecentContactMs

\* C36: after a discovery packet has changed the cached discovery address
\* (SSID not the captive AP, network up) the addresses used for pull and for
\* push eventually equal the cached one, and discovery_dirty is never cleared
\* by a step that did not run the locator.
C36_TransportFollowsDiscovery ==
    /\ [][(discovery_dirty /\ ~discovery_dirty') => hist'.located]_vars
    /\ (hist.dirtied /\ wifi_status /\ wifi_ssid # CaptiveSsid)
           ~> \/ ~wifi_status
              \/ /\ server_ip = discovered_server_ip
                 /\ server_port = discovered_server_port
                 /\ ws_host = discovered_server_ip
                 /\ ws_port = discovered_server_port

C36_ClearedWhileConnectedWitness ==
    /\ hist.op = "gate" /\ ~hist.located /\ ~discovery_dirty
    /\ is_connected /\ hist.changed
    /\ ws_host # discovered_server_ip /\ server_ip # discovered_server_ip

\* C37: is_connected implies ws_configured in every reachable state, and the
\* loop's teardown clears ws_configured only while is_connected is false.
C37_ConnectedImpliesConfigured ==
    /\ [](is_connected => ws_configured)
    /\ [][hist'.teardown => ~is_connected]_vars

C37_ConnectedKeptAtGateWitness ==
    /\ hist.op = "gate" /\ is_connected /\ ws_configured /\ ~hist.teardown
    /\ now - last_http_success_ms < RecentContactMs

\* C38: whenever the loop polls the discovery listener (the station is
\* associated at line 252) udp.begin(8001) has been called, also when the
\* station associates only after the attachment deadline reported failure.
C38_PolledAfterBegin == (pc = "udp" /\ wifi_status) => udp_started

C38_LateAssociationWitness ==
    /\ pc = "udp" /\ wifi_status /\ ~udp_started /\ ~wifi_connecting
    /\ wifi_begun /\ now > WifiDeadlineMs

\* C39: the locator compares wifi_ssid with "NomadPi" only while the station
\* is associated, and whenever the station is associated wifi_ssid is the
\* SSID that was given to WiFi.begin, whatever the settings UI did before.
C39_ComparedSsidIsJoined ==
    /\ hist.located => wifi_status
    /\ wifi_status => wifi_ssid = hist.joined

C39_PickedNetworkLocatedWitness ==
    /\ env = "settings" /\ hist.op = "wifi" /\ hist.located
    /\ prefs.ssid = CaptiveSsid /\ wifi_ssid = CaptiveSsid
    /\ server_ip = CaptiveIp

C39_SelectedThenCancelled ==
    /\ hist.op = "cancel" /\ wifi_ssid # prefs.ssid /\ wifi_ssid # hist.joined

\* C40: processWsMessage consumes a payload from the mailbox, and counts it
\* as a contact, only while the push channel that delivered it is still
\* configured; a payload pending at the teardown is disregarded.
C40_StalePayloadDisregarded ==
    [][(hist'.op = "process" /\ ws_payload_ready /\ ~ws_payload_ready')
           => ws_configured]_vars

C40_DecodedAfterTeardownWitness ==
    /\ hist.op = "process" /\ hist.decoded >= 0 /\ ~ws_configured
    /\ ~is_connected /\ last_http_success_ms = now

=============================================================================
